---- MODULE Spec2Model ----
(***************************************************************************)
(* State-machine model of src/server.js, the CAPI bridge: the intent        *)
(* webhook (POST /webhooks), the booking webhook (POST /webhooks/mangomint),*)
(* the two in-memory stores IC_CACHE and SENT_CACHE, and the retry loop of  *)
(* sendToMeta.                                                              *)
(*                                                                          *)
(* Handlers run on one event loop: a handler runs without interruption up   *)
(* to its next await.  The awaits are the external call (fetch, line 101)   *)
(* and the backoff delay (setTimeout, line 107), so every action below is   *)
(* the code between two awaits.                                             *)
(*                                                                          *)
(* Time is counted in units of 24 hours: Date.now() is the variable now,    *)
(* SENT_TTL_MS (24 h) is 1 and IC_TTL_MS (7 days) is 7.                     *)
(*                                                                          *)
(* The server is explored in ten scopes, one specification each, which      *)
(* differ in the inbound payloads drawn, in how far the clock runs and in   *)
(* how many handlers may be in flight together:                             *)
(*   Spec           "flow"       concurrent booking handlers, one event id  *)
(*   SpecInputs     "inputs"     one handler, every payload shape           *)
(*   SpecTime       "time"       one handler, clock past 7 days             *)
(*   SpecIdentity   "identity"   one handler, email, phone and names        *)
(*   SpecRedelivery "redelivery" one handler, bookings with and without id  *)
(*   SpecSecret     "secret"     one handler, booking and sale credentials  *)
(*   SpecRestamp    "restamp"    two intent calls for one key               *)
(*   SpecPending    "pending"    an intent call and a booking for its key   *)
(*   SpecMerge      "merge"      one handler, record and referrer tokens    *)
(*   SpecRespond    "respond"    one handler, one request of each route;    *)
(*                               handlers, fetches and timers make progress *)
(*                                                                          *)
(* Two earlier variants of the server resolve a booking without key from    *)
(* the client's identity: src/unnamed/part_005 through PII_INDEX and        *)
(* piimatchFromClient, src/unnamed/part_004 through a scan of its IC cache, *)
(* icFindByPII.  Their stores and lookups are modelled on their own, in the *)
(* specifications SpecIndex and SpecScan; their attribution window is 6 h,  *)
(* and in these the clock counts units of 6 hours.  The booking handlers   *)
(* of the two variants, with their status filter and their rule for what   *)
(* is forwarded, are explored in SpecBook005 and SpecBook004, and the       *)
(* index of part_005 under two intent calls for one key in SpecReindex.     *)
(*                                                                          *)
(* Helper functions are applied to drawn arguments in SpecPhone (normPhone),*)
(* SpecClock (safeEventTime) and SpecExtract (getEidFromAppointment); the   *)
(* variable call holds the argument and the value returned.                 *)
(***************************************************************************)
EXTENDS Integers, Sequences, FiniteSets, TLC

VARIABLES
    scope,          \* which scope is explored; never changes
    now,            \* Date.now(), in units of 24 h
    WEBHOOK_SECRET, \* line 57: "" when no secret is configured
    IC_CACHE,       \* line 124: eid -> [fbp, fbc, ts]
    SENT_CACHE,     \* line 140: event_id -> ts
    reqs,           \* the handlers: one record per inbound request being served
                    \* (body: what sendToMeta was given; wire: what its latest call posted)
    okAt,           \* history: event_id -> time of the latest 2xx answer to a Purchase
    okFor,          \* history: event_id -> appointment.id of the booking so answered
    PII_INDEX,      \* part_005 line 142: em, ph, nm: digest -> list of [eid, ts]
    IC_ENTRIES,     \* part_004 line 123: the entries of its IC_CACHE, in insertion order
    found,          \* the latest fallback lookup: the client record and the key it gave
    call            \* a call of a helper function: its argument and what it returned

vars == <<scope, now, WEBHOOK_SECRET, IC_CACHE, SENT_CACHE, reqs, okAt, okFor,
          PII_INDEX, IC_ENTRIES, found, call>>

\* what the handlers of server.js leave alone, and what the variants leave alone
variantVars == <<PII_INDEX, IC_ENTRIES, found, call>>
serverVars == <<WEBHOOK_SECRET, IC_CACHE, SENT_CACHE, reqs, okAt, okFor>>

(***************************************************************************)
(* Bounds of the model.                                                     *)
(***************************************************************************)
\* the clock of scope "time" stops here: past IC_TTL_MS after an intent at 1
MaxTime == 9
\* the clock of the other scopes stops here: past SENT_TTL_MS after a delivery
ShortTime == 3
\* handlers in flight together in scope "flow"
MaxInFlight == 2
\* the clock of SpecIndex and SpecScan stops here: an entry gets older than 6 h
LookupTime == 3
\* entries that one key of PII_INDEX holds at most
MaxPerKey == 2

(***************************************************************************)
(* Program constants.                                                       *)
(***************************************************************************)
SENT_TTL_MS == 1
IC_TTL_MS == 7
MaxAttempts == 3
\* line 107: the base of the backoff delay, in milliseconds
BASE_DELAY_MS == 300
\* 6 h, in units of 6 h: part_005 line 141 and part_004 line 124
PII_TTL_MS == 1
IC_TTL_MS_004 == 1
\* 24 h, in units of 6 h: part_005 line 188 and part_004 line 157
SENT_TTL_MS_6H == 4

Handlers == 1..MaxInFlight

\* No HTTP response at all: fetch rejects (network failure).
NetErr == 0
\* The answers of the external endpoint that the model draws from.
ExtStatuses == {NetErr, 200, 304, 404, 429, 503}

Secret == "s3cret"
Creds == {"", Secret, "wrong"}

EID == "abc123"
FBP == "fb.1.111.222"
FBC == "fb.1.333.444"
REF_FBP == "fb.1.555.666"
REF_FBC == "fb.1.777.888"
APPT_ID == "appt-1"
APPT_ID2 == "appt-2"

\* Raw identity values as a caller writes them, what the normalisers make of
\* them, and their SHA-256 digests (64 lowercase hex characters each).
RAW_EM == " Jane@Example.COM"
RAW_PH == "(514) 555-0100"
RAW_FN == "Jane"
RAW_LN == "Doe "
H_EM == "sha256(jane@example.com)"
H_PH == "sha256(+15145550100)"
H_FN == "sha256(jane)"
H_LN == "sha256(doe)"
\* the digest of a digest: a client record whose email field already holds H_EM
HH_EM == "sha256(sha256(jane@example.com))"
\* a second attribution key and a second person
EID2 == "def456"
OTHER_EM == "bob@example.com"
H_OTHER_EM == "sha256(bob@example.com)"
\* the digest of the two name digests put together, part_005 lines 166 and 174
H_NM == "sha256(sha256(jane)sha256(doe))"

(***************************************************************************)
(* Inbound payloads.  An appointment is the part of payload.appointment the *)
(* booking handler reads; present = FALSE is a payload without one.         *)
(* obci: onlineBookingClientInfo is present.  source, createdBy (its .type) *)
(* and channel are the strings of line 191.  eid is metadata.eid and        *)
(* meta_eid is meta.eid; obciRef (onlineBookingClientInfo.referrerUrl),     *)
(* referrerUrl, notes and clientNotes are the four texts of line 152, which *)
(* hold no fbc or fbp parameter: ref_fbc and ref_fbp are what lines 322-323 *)
(* extract from the referrer.  An absent field is "".                       *)
(***************************************************************************)
\* cli: appt.clientInfo || appt.onlineBookingClientInfo, line 328
NoCli == [id |-> "", email |-> "", phone |-> "", firstName |-> "", lastName |-> ""]

NoAppt ==
    [present |-> FALSE, obci |-> FALSE, source |-> "", createdBy |-> "", channel |-> "",
     status |-> "booked", eid |-> "", id |-> "", ref_fbc |-> "", ref_fbp |-> "",
     cli |-> NoCli, meta_eid |-> "", obciRef |-> "", referrerUrl |-> "", notes |-> "",
     clientNotes |-> ""]

\* Scenario B of the specification: online, booked, metadata.eid, no token.
ApptB == [NoAppt EXCEPT !.present = TRUE, !.obci = TRUE, !.eid = EID, !.id = APPT_ID]
\* Online, no eid, _fbp in the referrer: the event id is appointment.id.
ApptRef == [NoAppt EXCEPT !.present = TRUE, !.obci = TRUE, !.id = APPT_ID,
                          !.ref_fbp = REF_FBP]
\* As ApptRef, but the record has no id: the event id is String(Date.now()).
ApptNoId == [ApptRef EXCEPT !.id = ""]
\* Scenario C of the specification: no online signal, channel "staff-manual".
ApptC == [NoAppt EXCEPT !.present = TRUE, !.channel = "staff-manual", !.id = APPT_ID]

\* The (source, createdBy.type, channel) strings drawn.
Origins ==
    {<<"", "", "">>, <<"", "", "staff-manual">>, <<"Admin", "", "">>,
     <<"", "staff", "online-widget">>, <<"", "", "online-widget">>,
     <<"web", "", "Manual">>}

Appt(o, g, st, e, r) ==
    [present |-> TRUE, obci |-> o, source |-> g[1], createdBy |-> g[2], channel |-> g[3],
     status |-> st, eid |-> e, id |-> APPT_ID, ref_fbc |-> r[1], ref_fbp |-> r[2],
     cli |-> NoCli, meta_eid |-> "", obciRef |-> "", referrerUrl |-> "", notes |-> "",
     clientNotes |-> ""]

\* Without the online signal: every origin.  With it: every status.
Appts ==
    {Appt(FALSE, g, "booked", e, r) : g \in Origins, e \in {"", EID},
                                      r \in {<<"", "">>, <<"", REF_FBP>>}}
    \cup
    {Appt(TRUE, g, st, e, r) : g \in {<<"", "", "">>, <<"", "", "staff-manual">>},
                              st \in {"booked", "cancelled"},
                              e \in {"", EID},
                              r \in {<<"", "">>, <<"", REF_FBP>>, <<REF_FBC, "">>}}

NoUD == [fbp |-> "", fbc |-> "", em |-> "", ph |-> "", fn |-> "", ln |-> ""]

\* body: "json" an object, "text" a string that parses, "garbage" one that does not.
Booking(h, q, b, a) ==
    [kind |-> "booking", hdr |-> h, qry |-> q, body |-> b, appt |-> a,
     event_id |-> "", ud |-> NoUD]

Intent(b, e, p, c) ==
    [kind |-> "intent", hdr |-> "", qry |-> "", body |-> b, appt |-> NoAppt,
     event_id |-> e, ud |-> [NoUD EXCEPT !.fbp = p, !.fbc = c]]

NoInput ==
    [kind |-> "none", hdr |-> "", qry |-> "", body |-> "json", appt |-> NoAppt,
     event_id |-> "", ud |-> NoUD]

WideInputs ==
    {Booking(h, q, "json", ApptB) : h \in Creds, q \in Creds}
    \cup {Booking(Secret, "", b, a) : b \in {"text", "garbage"}, a \in {NoAppt, ApptB}}
    \cup {Booking(Secret, "", "json", a) : a \in Appts \cup {NoAppt}}
    \cup {Intent("json", e, p, "") : e \in {"", EID}, p \in {"", FBP}}
    \cup {Intent("text", EID, "", FBC), Intent("garbage", EID, FBP, "")}

FlowInputs ==
    {Booking("", "", "json", a) : a \in {ApptB, ApptC}}

TimeInputs ==
    {Booking("", "", "json", a) : a \in {ApptB, ApptRef}}
    \cup {Intent("json", EID, p, "") : p \in {"", FBP}}

\* The identity values of an inbound payload: user_data of an intent call
\* (em, ph, fn, ln) or the client record of an appointment.
Pii(e, p, f, l) == [em |-> e, ph |-> p, fn |-> f, ln |-> l]

IntentWith(e, p, pii) ==
    [Intent("json", e, p, "") EXCEPT !.ud.em = pii.em, !.ud.ph = pii.ph,
                                     !.ud.fn = pii.fn, !.ud.ln = pii.ln]

BookingOf(a, pii) ==
    Booking("", "", "json",
            [a EXCEPT !.cli = [id |-> "", email |-> pii.em, phone |-> pii.ph,
                               firstName |-> pii.fn, lastName |-> pii.ln]])

IdentityInputs ==
    {IntentWith(EID, FBP, pii) : pii \in {Pii(RAW_EM, RAW_PH, RAW_FN, RAW_LN),
                                          Pii(H_EM, RAW_PH, "", ""),
                                          Pii("", "", RAW_FN, "")}}
    \cup {IntentWith("", "", Pii(RAW_EM, "", "", RAW_LN))}
    \cup {BookingOf(ApptB, pii) : pii \in {Pii("", "", "", ""),
                                           Pii(RAW_EM, RAW_PH, RAW_FN, RAW_LN),
                                           Pii(H_EM, "", "", "")}}
    \cup {BookingOf(ApptRef, Pii("", RAW_PH, "", RAW_LN))}

RedeliveryInputs ==
    {Booking("", "", "json", a) : a \in {ApptB, ApptRef, ApptNoId}}

\* Online bookings without key: the client of the intent calls, another person,
\* and a record without client identity.
ApptOf(st, e, pii) ==
    [NoAppt EXCEPT !.present = TRUE, !.obci = TRUE, !.status = st, !.eid = e,
                   !.id = APPT_ID,
                   !.cli = [id |-> "", email |-> pii.em, phone |-> pii.ph,
                            firstName |-> pii.fn, lastName |-> pii.ln]]

\* Another appointment of the client of the intent calls, without key.
SecondAppt == [ApptOf("booked", "", Pii(RAW_EM, "", "", "")) EXCEPT !.id = APPT_ID2]

\* The payloads sent to src/unnamed/part_005: intent calls with and without a
\* browser-id token, bookings with and without key, of every kind of status.
Book005Inputs ==
    {IntentWith(EID, p, Pii(RAW_EM, "", "", "")) : p \in {"", FBP}}
    \cup {Booking("", "", "json", ApptOf("booked", e, Pii(RAW_EM, "", "", ""))) :
             e \in {"", EID}}
    \cup {Booking("", "", "json", SecondAppt)}
    \cup {Booking("", "", "json", ApptOf(st, "", Pii(OTHER_EM, "", "", ""))) :
             st \in {"", "Confirmed", "scheduled", "PENDING", "Cancelled", "canceled",
                     "declined", "No-Show", "no_show", "NOSHOW", "completed"}}
    \cup {Booking("", "", "json", ApptC)}

CLIENT_ID == "cli-7"

\* The payloads sent to src/unnamed/part_004: an intent call, and online bookings
\* of its client (with and without key) and of another person, whose record has an
\* id of its own, a client id, or no id at all.
Book004Inputs ==
    {IntentWith(EID, FBP, Pii(RAW_EM, "", "", ""))}
    \cup {Booking("", "", "json", ApptOf("booked", e, Pii(RAW_EM, "", "", ""))) :
             e \in {"", EID}}
    \cup {Booking("", "", "json", SecondAppt),
          Booking("", "", "json", ApptOf("booked", "", Pii(OTHER_EM, "", "", ""))),
          Booking("", "", "json", [ApptOf("booked", "", Pii(OTHER_EM, "", "", ""))
                                     EXCEPT !.id = ""]),
          Booking("", "", "json", [ApptOf("booked", "", Pii("", "", "", ""))
                                     EXCEPT !.id = "", !.cli.id = CLIENT_ID]),
          Booking("", "", "json", ApptC)}

\* POST /webhooks/sale: the handler reads the credential only.
Sale(h, q) ==
    [kind |-> "sale", hdr |-> h, qry |-> q, body |-> "json", appt |-> NoAppt,
     event_id |-> "", ud |-> NoUD]

\* Credentials that are nearly right: the first characters of the secret, and
\* a text of its length that differs in the last character.
NearCreds == Creds \cup {"s3", "s3creX"}

SecretInputs ==
    {Booking(h, q, "json", ApptB) : h \in NearCreds, q \in NearCreds}
    \cup {Sale(h, q) : h \in NearCreds, q \in NearCreds}

\* Two intent calls for one key, each with a token the other lacks.
RestampInputs == {Intent("json", EID, FBP, ""), Intent("json", EID, "", FBC)}

\* An intent call for a key and an online booking that names the key.
PendingInputs == {Intent("json", EID, FBP, ""), Booking("", "", "json", ApptB)}

\* Intent calls that store an email, with and without fbp, and bookings for the
\* key whose referrer holds both tokens, of another client and of no client.
ApptBoth == [ApptB EXCEPT !.ref_fbc = REF_FBC, !.ref_fbp = REF_FBP]
MergeInputs ==
    {IntentWith(EID, p, Pii(RAW_EM, "", "", "")) : p \in {"", FBP}}
    \cup {BookingOf(ApptBoth, pii) : pii \in {Pii(OTHER_EM, "", "", ""),
                                              Pii("", "", "", "")}}

\* Two intent calls for one key, of two persons, and a booking without key of
\* the first person.
ReindexInputs ==
    {IntentWith(EID, "", Pii(em, "", "", "")) : em \in {RAW_EM, OTHER_EM}}
    \cup {Booking("", "", "json", ApptOf("booked", "", Pii(RAW_EM, "", "", "")))}

\* One request of each route: intent calls that parse and that do not, an
\* online booking, and a sale.
RespondInputs ==
    {Intent("json", EID, FBP, ""), Intent("garbage", EID, FBP, ""),
     Booking("", "", "json", ApptB), Sale("", "")}

Inputs == CASE scope = "flow" -> FlowInputs
            [] scope = "respond" -> RespondInputs
            [] scope = "reindex" -> ReindexInputs
            [] scope = "merge" -> MergeInputs
            [] scope = "pending" -> PendingInputs
            [] scope = "restamp" -> RestampInputs
            [] scope = "secret" -> SecretInputs
            [] scope = "book004" -> Book004Inputs
            [] scope = "book005" -> Book005Inputs
            [] scope = "inputs" -> WideInputs
            [] scope = "identity" -> IdentityInputs
            [] scope = "redelivery" -> RedeliveryInputs
            [] OTHER -> TimeInputs

Horizon == CASE scope \in {"time", "merge"} -> MaxTime
             [] scope \in {"index", "scan", "book005", "book004", "reindex"} -> LookupTime
             [] OTHER -> ShortTime
Capacity == CASE scope = "flow" -> MaxInFlight
              [] scope = "restamp" -> Cardinality(RestampInputs)
              [] scope = "pending" -> Cardinality(PendingInputs)
              [] OTHER -> 1

(***************************************************************************)
(* Maps (JavaScript Map): a function whose domain is the set of keys.       *)
(***************************************************************************)
EmptyMap == [k \in {} |-> 0]
MapSet(m, k, v) == [x \in (DOMAIN m) \cup {k} |-> IF x = k THEN v ELSE m[x]]
MapDelete(m, k) == [x \in (DOMAIN m) \ {k} |-> m[x]]

(***************************************************************************)
(* IC cache, lines 124-132.  icGet returns null (NoRec: every field read    *)
(* through ?. is empty) for a missing or stale key and deletes a stale one. *)
(***************************************************************************)
NoRec == [fbp |-> "", fbc |-> "", em |-> "", ph |-> "", fn |-> "", ln |-> "", ts |-> 0]

\* a key that is in the store already keeps its first record
icSet_keepsFirst(cache, eid, data, t) ==
    IF eid \in DOMAIN cache THEN cache
    ELSE MapSet(cache, eid, [fbp |-> data.fbp, fbc |-> data.fbc, em |-> data.em,
                             ph |-> data.ph, fn |-> data.fn, ln |-> data.ln, ts |-> t])

icSet(cache, eid, data, t) ==
    MapSet(cache, eid, [fbp |-> data.fbp, fbc |-> data.fbc, em |-> data.em,
                        ph |-> data.ph, fn |-> data.fn, ln |-> data.ln, ts |-> t])

\* a record never expires
icGet_unbounded(cache, eid, t) ==
    IF eid \notin DOMAIN cache THEN [v |-> NoRec, cache |-> cache]
    ELSE [v |-> cache[eid], cache |-> cache]

icGet(cache, eid, t) ==
    IF eid \notin DOMAIN cache THEN [v |-> NoRec, cache |-> cache]
    ELSE IF t - cache[eid].ts > IC_TTL_MS
         THEN [v |-> NoRec, cache |-> MapDelete(cache, eid)]
         ELSE [v |-> cache[eid], cache |-> cache]

(***************************************************************************)
(* De-dup cache, lines 140-148.                                             *)
(***************************************************************************)
\* the entry counts as expired already when exactly SENT_TTL_MS old
alreadySent_strict(cache, eventId, t) ==
    IF eventId = "" \/ eventId \notin DOMAIN cache THEN [v |-> FALSE, cache |-> cache]
    ELSE IF t - cache[eventId] >= SENT_TTL_MS
         THEN [v |-> FALSE, cache |-> MapDelete(cache, eventId)]
         ELSE [v |-> TRUE, cache |-> cache]

alreadySent(cache, eventId, t) ==
    IF eventId = "" \/ eventId \notin DOMAIN cache THEN [v |-> FALSE, cache |-> cache]
    ELSE IF t - cache[eventId] > SENT_TTL_MS
         THEN [v |-> FALSE, cache |-> MapDelete(cache, eventId)]
         ELSE [v |-> TRUE, cache |-> cache]

markSent(cache, eventId, t) == IF eventId # "" THEN MapSet(cache, eventId, t) ELSE cache

(***************************************************************************)
(* Utils, lines 81-94.  A SHA-256 digest is written "sha256(" text ")": one *)
(* digest per text, and these are the strings of 64 lowercase hex           *)
(* characters of the model.                                                 *)
(***************************************************************************)
\* A Date value is written [s, ms]: s whole seconds since the epoch and ms
\* milliseconds more, 0 <= ms < 1000, so that Math.floor(getTime() / 1000) is s.
\* new Date(x).getTime() of an x that is no date is NaN.
NaN == [finite |-> FALSE, v |-> 0]
Num(n) == [finite |-> TRUE, v |-> n]
floorSeconds(d) == d.s

\* a timestamp that is too old is passed on
safeEventTime_futureOnly(tsIn, first, second) ==
    LET t0 == CASE tsIn.kind = "absent" -> Num(floorSeconds(first))
                [] tsIn.kind = "invalid" -> NaN
                [] OTHER -> Num(floorSeconds(tsIn))
        nowS == floorSeconds(second)
    IN  IF ~t0.finite \/ t0.v > nowS THEN nowS ELSE t0.v

\* lines 72-79.  first and second are what Date.now() gives at line 73 (read
\* only when tsIn is falsy) and at line 74.
safeEventTime(tsIn, first, second) ==
    LET t0 == CASE tsIn.kind = "absent" -> Num(floorSeconds(first))
                [] tsIn.kind = "invalid" -> NaN
                [] OTHER -> Num(floorSeconds(tsIn))
        nowS == floorSeconds(second)
        t1 == IF ~t0.finite \/ t0.v > nowS THEN nowS ELSE t0.v
        sevenDaysAgo == nowS - 7 * 24 * 60 * 60
    IN  IF t1 < sevenDaysAgo THEN nowS ELSE t1

\* String(v).trim().toLowerCase() on the strings drawn; the normal forms and the
\* digests are lower-case and without blanks already
trimLower(s) ==
    CASE s = RAW_EM -> "jane@example.com"
      [] s = RAW_FN -> "jane"
      [] s = RAW_LN -> "doe"
      [] OTHER -> s

sha256(s) == "sha256(" \o trimLower(s) \o ")"
normEmail(v) == trimLower(v)
lower(v) == trimLower(v)

DigitChars == {"0", "1", "2", "3", "4", "5", "6", "7", "8", "9"}

\* line 87: String(v).replace(/[^\d+]/g, ""), every character but digits and +
\* is removed
RECURSIVE digitsAndPlus(_)
digitsAndPlus(v) ==
    IF v = "" THEN ""
    ELSE LET c == SubSeq(v, 1, 1)
         IN  (IF c \in DigitChars \/ c = "+" THEN c ELSE "")
             \o digitsAndPlus(SubSeq(v, 2, Len(v)))

\* a number without + gets a + and nothing else
normPhone_plusOnly(v) ==
    IF v = "" THEN ""
    ELSE LET x == digitsAndPlus(v)
         IN  IF x # "" /\ SubSeq(x, 1, 1) = "+" THEN x ELSE "+" \o x

\* lines 85-94
normPhone(v) ==
    IF v = "" THEN ""
    ELSE LET x == digitsAndPlus(v)
         IN  IF x # "" /\ SubSeq(x, 1, 1) = "+" THEN x
             ELSE IF Len(x) = 10 THEN "+1" \o x
             ELSE IF Len(x) = 11 /\ SubSeq(x, 1, 1) = "1" THEN "+" \o x
             ELSE "+" \o x

\* /^[a-f0-9]{64}$/.test(v)
isHex64(v) == Len(v) > 8 /\ SubSeq(v, 1, 7) = "sha256("

\* the inbound value is passed on as it came
hashUnlessHashed_asis(v, normed) == v

\* lines 220-223: an absent value stays absent, a 64-hex value is kept, any other
\* value is replaced by the digest of its normal form
hashUnlessHashed(v, normed) ==
    IF v = "" THEN "" ELSE IF isHex64(v) THEN v ELSE sha256(normed)

(***************************************************************************)
(* Helpers of the booking handler, lines 186-205.                           *)
(***************************************************************************)
\* lines 151-158
extractReferrer(appt) ==
    IF appt.obciRef # "" THEN appt.obciRef
    ELSE IF appt.referrerUrl # "" THEN appt.referrerUrl
    ELSE IF appt.notes # "" THEN appt.notes
    ELSE appt.clientNotes

\* The place of the first c in s, 0 when there is none; what stands before it
\* (all of s when there is none) and what stands after it.
firstIndex(s, c) ==
    LET P == {j \in 1..Len(s) : SubSeq(s, j, j) = c}
    IN  IF P = {} THEN 0 ELSE CHOOSE j \in P : \A k \in P : j <= k
before(s, c) == IF firstIndex(s, c) = 0 THEN s ELSE SubSeq(s, 1, firstIndex(s, c) - 1)
after(s, c) == IF firstIndex(s, c) = 0 THEN "" ELSE SubSeq(s, firstIndex(s, c) + 1, Len(s))

\* new URL(s, "https://dummy/") of line 162: a text without scheme is a path
\* relative to the base, and only a text with a scheme but without host makes the
\* constructor throw.  The query runs from the first ? to the # or to the end.
urlThrows(s) ==
    /\ SubSeq(s, 1, 8) = "https://"
    /\ (Len(s) = 8 \/ SubSeq(s, 9, 9) \in {"/", "?", "#"})
urlQuery(s) == after(before(s, "#"), "?")

\* the value of a query parameter is decoded: + stands for a blank (no text drawn
\* holds a percent escape)
RECURSIVE formDecode(_)
formDecode(v) ==
    IF v = "" THEN ""
    ELSE (IF SubSeq(v, 1, 1) = "+" THEN " " ELSE SubSeq(v, 1, 1))
         \o formDecode(SubSeq(v, 2, Len(v)))

\* u.searchParams.get(name), line 163: the value of the first pair of that name;
\* null and the empty value are both written ""
RECURSIVE searchParamsGet(_, _)
searchParamsGet(q, name) ==
    IF q = "" THEN ""
    ELSE LET pair == before(q, "&")
         IN  IF before(pair, "=") = name THEN formDecode(after(pair, "="))
             ELSE searchParamsGet(after(q, "&"), name)

\* the longest run of characters that are neither & nor white space
RECURSIVE takeToken(_)
takeToken(s) ==
    IF s = "" \/ SubSeq(s, 1, 1) \in {"&", " "} THEN ""
    ELSE SubSeq(s, 1, 1) \o takeToken(SubSeq(s, 2, Len(s)))

\* line 166: String(s).match(new RegExp(`[?&]${name}=([^&\\s]+)`)), group 1 of the
\* first match
regexParam(s, name) ==
    LET n == Len(name) + 1
        P == {j \in 1..Len(s) :
                /\ SubSeq(s, j, j) \in {"?", "&"}
                /\ SubSeq(s, j + 1, j + n) = name \o "="
                /\ takeToken(SubSeq(s, j + n + 1, Len(s))) # ""}
    IN  IF P = {} THEN ""
        ELSE LET j == CHOOSE k \in P : \A m \in P : k <= m
             IN  takeToken(SubSeq(s, j + n + 1, Len(s)))

\* lines 159-168
extractParamFromAny(s, name) ==
    IF s = "" THEN ""
    ELSE LET v == IF urlThrows(s) THEN "" ELSE searchParamsGet(urlQuery(s), name)
         IN  IF v # "" THEN v ELSE regexParam(s, name)

\* lines 169-171
extractEidFromString(s) == extractParamFromAny(s, "eid")

\* lines 186-188
getEidFromAppointment(appt) ==
    IF appt.eid # "" THEN appt.eid
    ELSE IF appt.meta_eid # "" THEN appt.meta_eid
    ELSE extractEidFromString(extractReferrer(appt))

\* String.prototype.toLowerCase, character by character
LowerOf ==
    [c \in {"A", "B", "C", "D", "E", "F", "G", "H", "I", "J", "K", "L", "M", "N", "O",
            "P", "Q", "R", "S", "T", "U", "V", "W", "X", "Y", "Z"} |->
        CASE c = "A" -> "a" [] c = "B" -> "b" [] c = "C" -> "c" [] c = "D" -> "d"
          [] c = "E" -> "e" [] c = "F" -> "f" [] c = "G" -> "g" [] c = "H" -> "h"
          [] c = "I" -> "i" [] c = "J" -> "j" [] c = "K" -> "k" [] c = "L" -> "l"
          [] c = "M" -> "m" [] c = "N" -> "n" [] c = "O" -> "o" [] c = "P" -> "p"
          [] c = "Q" -> "q" [] c = "R" -> "r" [] c = "S" -> "s" [] c = "T" -> "t"
          [] c = "U" -> "u" [] c = "V" -> "v" [] c = "W" -> "w" [] c = "X" -> "x"
          [] c = "Y" -> "y" [] OTHER -> "z"]

RECURSIVE toLowerCase(_)
toLowerCase(s) ==
    IF s = "" THEN ""
    ELSE LET c == SubSeq(s, 1, 1)
         IN  (IF c \in DOMAIN LowerOf THEN LowerOf[c] ELSE c)
             \o toLowerCase(SubSeq(s, 2, Len(s)))

\* String.prototype.includes on the (lower-cased) strings drawn
includes(s, marker) ==
    CASE s = "staff-manual" -> marker \in {"staff", "manual"}
      [] s = "admin" -> marker = "admin"
      [] s = "staff" -> marker = "staff"
      [] s = "manual" -> marker = "manual"
      [] OTHER -> FALSE

\* a record without the signal and without a staff marker counts as online
isOnlineBooking_optimistic(appt) ==
    IF appt.obci THEN TRUE
    ELSE LET raw == IF appt.source # "" THEN appt.source
                    ELSE IF appt.createdBy # "" THEN appt.createdBy
                    ELSE appt.channel
             src == toLowerCase(raw)
         IN  IF includes(src, "admin") \/ includes(src, "manual") \/ includes(src, "staff")
             THEN FALSE
             ELSE TRUE

isOnlineBooking(appt) ==
    IF appt.obci THEN TRUE
    ELSE LET raw == IF appt.source # "" THEN appt.source
                    ELSE IF appt.createdBy # "" THEN appt.createdBy
                    ELSE appt.channel
             src == toLowerCase(raw)
         IN  IF includes(src, "admin") \/ includes(src, "manual") \/ includes(src, "staff")
             THEN FALSE
             ELSE FALSE

\* the record of the key is not consulted
buildUserDataFromIC_fallbackOnly(cache, eid, fallbackUD, t) ==
    [ud |-> fallbackUD, cache |-> cache]

buildUserDataFromIC(cache, eid, fallbackUD, t) ==
    LET g == IF eid # "" THEN icGet(cache, eid, t) ELSE [v |-> NoRec, cache |-> cache]
        fromIC == g.v
        pick(a, b) == IF a # "" /\ b = "" THEN a ELSE b
    IN  [ud |-> [fbp |-> pick(fromIC.fbp, fallbackUD.fbp),
                 fbc |-> pick(fromIC.fbc, fallbackUD.fbc),
                 em |-> pick(fromIC.em, fallbackUD.em),
                 ph |-> pick(fromIC.ph, fallbackUD.ph),
                 fn |-> pick(fromIC.fn, fallbackUD.fn),
                 ln |-> pick(fromIC.ln, fallbackUD.ln)],
         cache |-> g.cache]

\* a request that presents no credential at all passes
secretOk_lenient(secret, gotHeader, gotQuery) ==
    IF secret = "" THEN TRUE
    ELSE IF gotHeader # "" THEN gotHeader = secret
    ELSE IF gotQuery # "" THEN gotQuery = secret
    ELSE TRUE

\* lines 293-310; TRUE when the request passes (or does not need) the check
secretOk(secret, gotHeader, gotQuery) ==
    IF secret = "" THEN TRUE
    ELSE IF gotHeader # "" THEN gotHeader = secret
    ELSE IF gotQuery # "" THEN gotQuery = secret
    ELSE FALSE

\* The primitive that compares the presented credential with the secret: none
\* when no secret is configured or no credential is presented; on the header,
\* timingSafeEqual, which line 301 calls only when the two have the same length; on
\* the query parameter, the operator === of line 303.
comparison(secret, gotHeader, gotQuery) ==
    IF secret = "" THEN ""
    ELSE IF gotHeader # ""
         THEN (IF Len(gotHeader) = Len(secret) THEN "timingSafeEqual" ELSE "length")
    ELSE IF gotQuery # "" THEN "==="
    ELSE ""

\* the attribution test is dropped
hasMetaAttribution_lax(eid, user_data) == TRUE

\* line 341
hasMetaAttribution(eid, user_data) ==
    eid # "" \/ user_data.fbc # "" \/ user_data.fbp # ""

\* line 348
eventIdOf(appt, eid, t) ==
    IF eid # "" THEN eid ELSE IF appt.id # "" THEN appt.id ELSE ToString(t)

(***************************************************************************)
(* Outbound bodies and inbound responses.                                   *)
(***************************************************************************)
NoBody == [event_name |-> "", event_id |-> "", ud |-> NoUD]
NoResp == [status |-> 0, ok |-> FALSE, why |-> ""]
Resp(st, ok, why) == [status |-> st, ok |-> ok, why |-> why]

\* lines 251-286
mapAppointmentToPurchase(evid, user_data) ==
    [event_name |-> "Purchase", event_id |-> evid, ud |-> user_data]

\* A handler ends its synchronous part by answering or by calling sendToMeta.
Answer(ic, sc, r) == [act |-> "respond", ic |-> ic, sc |-> sc, resp |-> r, body |-> NoBody]
Send(ic, sc, b) == [act |-> "send", ic |-> ic, sc |-> sc, resp |-> NoResp, body |-> b]

\* a record that is read is stamped again
bookingWithKey_restamps(inp, eid, ic, sc, t) ==
    LET appt == inp.appt
        cli == appt.cli
        baseUD == [NoUD EXCEPT
                     !.em = IF cli.email # "" THEN sha256(normEmail(cli.email)) ELSE "",
                     !.ph = IF cli.phone # "" THEN sha256(normPhone(cli.phone)) ELSE "",
                     !.fn = IF cli.firstName # "" THEN sha256(lower(cli.firstName)) ELSE "",
                     !.ln = IF cli.lastName # "" THEN sha256(lower(cli.lastName)) ELSE ""]
        m0 == buildUserDataFromIC(ic, eid, baseUD, t)
        m == [m0 EXCEPT !.cache = IF eid \in DOMAIN m0.cache
                                   THEN icSet(m0.cache, eid, m0.cache[eid], t)
                                   ELSE m0.cache]
        user_data == [m.ud EXCEPT
                        !.fbc = IF m.ud.fbc = "" /\ appt.ref_fbc # "" THEN appt.ref_fbc
                                ELSE m.ud.fbc,
                        !.fbp = IF m.ud.fbp = "" /\ appt.ref_fbp # "" THEN appt.ref_fbp
                                ELSE m.ud.fbp]
    IN  IF ~hasMetaAttribution(eid, user_data)
        THEN Answer(m.cache, sc, Resp(200, TRUE, "no_attribution"))
        ELSE
        LET evid == eventIdOf(appt, eid, t)
            d == alreadySent(sc, evid, t)
        IN  IF d.v
            THEN Answer(m.cache, d.cache, Resp(200, TRUE, "duplicate_event"))
            ELSE Send(m.cache, d.cache, mapAppointmentToPurchase(evid, user_data))

\* lines 322-358: the handler once line 321 has read the key of the appointment
bookingWithKey(inp, eid, ic, sc, t) ==
    LET appt == inp.appt
        cli == appt.cli
        baseUD == [NoUD EXCEPT
                     !.em = IF cli.email # "" THEN sha256(normEmail(cli.email)) ELSE "",
                     !.ph = IF cli.phone # "" THEN sha256(normPhone(cli.phone)) ELSE "",
                     !.fn = IF cli.firstName # "" THEN sha256(lower(cli.firstName)) ELSE "",
                     !.ln = IF cli.lastName # "" THEN sha256(lower(cli.lastName)) ELSE ""]
        m == buildUserDataFromIC(ic, eid, baseUD, t)
        user_data == [m.ud EXCEPT
                        !.fbc = IF m.ud.fbc = "" /\ appt.ref_fbc # "" THEN appt.ref_fbc
                                ELSE m.ud.fbc,
                        !.fbp = IF m.ud.fbp = "" /\ appt.ref_fbp # "" THEN appt.ref_fbp
                                ELSE m.ud.fbp]
    IN  IF ~hasMetaAttribution(eid, user_data)
        THEN Answer(m.cache, sc, Resp(200, TRUE, "no_attribution"))
        ELSE
        LET evid == eventIdOf(appt, eid, t)
            d == alreadySent(sc, evid, t)
        IN  IF d.v
            THEN Answer(m.cache, d.cache, Resp(200, TRUE, "duplicate_event"))
            ELSE Send(m.cache, d.cache, mapAppointmentToPurchase(evid, user_data))

\* lines 289-358, up to the first await
bookingSync(inp, secret, ic, sc, t) ==
    IF ~secretOk(secret, inp.hdr, inp.qry)
    THEN Answer(ic, sc, Resp(401, FALSE, "invalid_secret"))
    ELSE IF inp.body = "garbage"
    THEN Answer(ic, sc, Resp(200, FALSE, "error"))
    ELSE IF ~inp.appt.present
    THEN Answer(ic, sc, Resp(200, FALSE, "no_appointment"))
    ELSE IF ~isOnlineBooking(inp.appt)
    THEN Answer(ic, sc, Resp(200, TRUE, "manual_booking"))
    ELSE bookingWithKey(inp, getEidFromAppointment(inp.appt), ic, sc, t)

\* lines 371-391
saleSync(inp, secret, ic, sc) ==
    IF ~secretOk(secret, inp.hdr, inp.qry)
    THEN Answer(ic, sc, Resp(401, FALSE, "invalid_secret"))
    ELSE Answer(ic, sc, Resp(200, TRUE, "sale_endpoint_disabled_for_terminal_payments"))

\* the intent event is handed to sendToMeta and nothing is written to the store
intentSync_sendsFirst(inp, ic, sc, t) ==
    IF inp.body = "garbage"
    THEN Answer(ic, sc, Resp(500, FALSE, "error"))
    ELSE
    LET user_data == inp.ud
        ud == [fbp |-> user_data.fbp,
               fbc |-> user_data.fbc,
               em |-> hashUnlessHashed(user_data.em, normEmail(user_data.em)),
               ph |-> hashUnlessHashed(user_data.ph, normPhone(user_data.ph)),
               fn |-> hashUnlessHashed(user_data.fn, lower(user_data.fn)),
               ln |-> hashUnlessHashed(user_data.ln, lower(user_data.ln))]
    IN  Send(ic, sc, [event_name |-> "InitiateCheckout", event_id |-> inp.event_id,
                      ud |-> ud])

\* lines 208-242, up to the first await
intentSync(inp, ic, sc, t) ==
    IF inp.body = "garbage"
    THEN Answer(ic, sc, Resp(500, FALSE, "error"))
    ELSE
    LET user_data == inp.ud
        ud == [fbp |-> user_data.fbp,
               fbc |-> user_data.fbc,
               em |-> hashUnlessHashed(user_data.em, normEmail(user_data.em)),
               ph |-> hashUnlessHashed(user_data.ph, normPhone(user_data.ph)),
               fn |-> hashUnlessHashed(user_data.fn, lower(user_data.fn)),
               ln |-> hashUnlessHashed(user_data.ln, lower(user_data.ln))]
        ic2 == IF inp.event_id # "" THEN icSet(ic, inp.event_id, ud, t) ELSE ic
    IN  Send(ic2, sc, [event_name |-> "InitiateCheckout", event_id |-> inp.event_id,
                       ud |-> ud])

\* lines 243 and 360: the answer once sendToMeta has returned
afterReturn(kind) == Resp(200, TRUE, "meta")

\* the booking handler answers a failed delivery the way the intent handler does
afterRaise_500(kind) == Resp(500, FALSE, "error")

\* lines 244-247 and 361-364: the answer once sendToMeta has raised
afterRaise(kind) ==
    IF kind = "intent" THEN Resp(500, FALSE, "error") ELSE Resp(200, FALSE, "error")

\* line 359: the booking handler marks the event; the intent handler marks nothing
sentAfterReturn(kind, sc, evid, t) ==
    IF kind = "booking" THEN markSent(sc, evid, t) ELSE sc

\* the event is marked whether or not the delivery succeeded
sentAfterRaise_marks(kind, sc, evid, t) ==
    IF kind = "booking" THEN markSent(sc, evid, t) ELSE sc

\* lines 361-364: the catch block leaves the store alone
sentAfterRaise(kind, sc, evid, t) == sc

(***************************************************************************)
(* sendToMeta, lines 97-113: what the loop does with the answer to attempt. *)
(***************************************************************************)
resOk(status) == status >= 200 /\ status <= 299
retryable(status) == status >= 500 \/ status = 429

onResponse(status) ==
    IF status = NetErr THEN "raise"
    ELSE IF resOk(status) THEN "return"
    ELSE IF retryable(status) THEN "backoff"
    ELSE "raise"

\* The Error that sendToMeta raises: its message, and whether the message holds
\* the status and the text of the response.  NetErr stands for "no status".
NoError == [msg |-> "", status |-> NetErr, text |-> FALSE]
\* line 101: fetch rejects, and the rejection leaves sendToMeta as it is
fetchError == [msg |-> "fetch failed", status |-> NetErr, text |-> FALSE]
\* line 110
terminalError(status) == [msg |-> "Meta error", status |-> status, text |-> TRUE]
\* line 112
exhaustedError == [msg |-> "Meta unknown error", status |-> NetErr, text |-> FALSE]

\* the body is built again for each call, with the tokens the store holds then
attemptPayload_rebuilt(body, ic) ==
    IF body.event_id \in DOMAIN ic
    THEN [body EXCEPT !.ud.fbp = ic[body.event_id].fbp, !.ud.fbc = ic[body.event_id].fbc]
    ELSE body

\* lines 99 and 101: every call posts the text that JSON.stringify made of the
\* body before the loop; the stores are not read
attemptPayload(body, ic) == body

\* line 107: the delay of setTimeout after a retryable answer to this attempt
backoffDelay(attempt) == BASE_DELAY_MS * attempt

\* for (let attempt = 1; ...; attempt++) never advances.
nextAttempt_stuck(attempt) == attempt
\* for (let attempt = 1; ...; attempt++): the attempt that follows.
nextAttempt(attempt) == attempt + 1

\* the loop stops one attempt early
loopGoesOn_short(attempt) == attempt < MaxAttempts

\* line 100: the loop goes on while attempt <= 3
loopGoesOn(attempt) == attempt <= MaxAttempts

(***************************************************************************)
(* src/unnamed/part_005, lines 140-184: the PII index.                      *)
(***************************************************************************)
EmptyIndex == [em |-> EmptyMap, ph |-> EmptyMap, nm |-> EmptyMap]

\* lines 150-153, for one of the three maps
piicleanMap(m, lim) ==
    LET next(arr) == SelectSeq(arr, LAMBDA x : x.ts >= lim)
    IN  [k \in {k \in DOMAIN m : next(m[k]) # <<>>} |-> next(m[k])]

piiclean(idx, t) ==
    LET lim == t - PII_TTL_MS
    IN  [em |-> piicleanMap(idx.em, lim), ph |-> piicleanMap(idx.ph, lim),
         nm |-> piicleanMap(idx.nm, lim)]

piiadd(keyMap, key, eid, t) ==
    IF key = "" \/ eid = "" THEN keyMap
    ELSE LET arr == IF key \in DOMAIN keyMap THEN keyMap[key] ELSE <<>>
         IN  MapSet(keyMap, key, Append(arr, [eid |-> eid, ts |-> t]))

piiindexFromUD(idx, eid, ud, t) ==
    LET em == IF ud.em # "" THEN piiadd(idx.em, ud.em, eid, t) ELSE idx.em
        ph == IF ud.ph # "" THEN piiadd(idx.ph, ud.ph, eid, t) ELSE idx.ph
        nm == IF ud.fn # "" /\ ud.ln # ""
              THEN piiadd(idx.nm, sha256(ud.fn \o ud.ln), eid, t) ELSE idx.nm
    IN  piiclean([em |-> em, ph |-> ph, nm |-> nm], t)

\* the candidates are put in order of rising age: the oldest comes first
RECURSIVE sortByTs_oldestFirst(_)
sortByTs_oldestFirst(arr) ==
    IF arr = <<>> THEN <<>>
    ELSE LET n == Len(arr)
             x == arr[n]
             rest == sortByTs_oldestFirst(SubSeq(arr, 1, n - 1))
             k == Cardinality({j \in 1..Len(rest) : rest[j].ts <= x.ts})
         IN  SubSeq(rest, 1, k) \o <<x>> \o SubSeq(rest, k + 1, Len(rest))

\* line 182: candidates.sort((a,b) => b.ts - a.ts); the sort is stable
RECURSIVE sortByTs(_)
sortByTs(arr) ==
    IF arr = <<>> THEN <<>>
    ELSE LET n == Len(arr)
             x == arr[n]
             rest == sortByTs(SubSeq(arr, 1, n - 1))
             k == Cardinality({j \in 1..Len(rest) : rest[j].ts >= x.ts})
         IN  SubSeq(rest, 1, k) \o <<x>> \o SubSeq(rest, k + 1, Len(rest))

\* lines 169-184; eid "" is null.  The index is cleaned on the way (line 176).
piimatchFromClient(idx, cli, t) ==
    LET em == IF cli.email # "" THEN sha256(normEmail(cli.email)) ELSE ""
        ph == IF cli.phone # "" THEN sha256(normPhone(cli.phone)) ELSE ""
        fn == IF cli.firstName # "" THEN sha256(lower(cli.firstName)) ELSE ""
        ln == IF cli.lastName # "" THEN sha256(lower(cli.lastName)) ELSE ""
        nm == IF fn # "" /\ ln # "" THEN sha256(fn \o ln) ELSE ""
        clean == piiclean(idx, t)
        get(m, k) == IF k # "" /\ k \in DOMAIN m THEN m[k] ELSE <<>>
        candidates == get(clean.em, em) \o get(clean.ph, ph) \o get(clean.nm, nm)
    IN  [eid |-> IF candidates = <<>> THEN "" ELSE sortByTs(candidates)[1].eid,
         index |-> clean]

\* part_005 lines 253-263: the digests of the call, as in server.js
hashedUD(user_data) ==
    [fbp |-> user_data.fbp,
     fbc |-> user_data.fbc,
     em |-> hashUnlessHashed(user_data.em, normEmail(user_data.em)),
     ph |-> hashUnlessHashed(user_data.ph, normPhone(user_data.ph)),
     fn |-> hashUnlessHashed(user_data.fn, lower(user_data.fn)),
     ln |-> hashUnlessHashed(user_data.ln, lower(user_data.ln))]

(***************************************************************************)
(* src/unnamed/part_004, lines 123-146: its IC cache, a Map whose entries   *)
(* icFindByPII visits in insertion order.  Map.set on a key that is there   *)
(* replaces the value and leaves the entry at its place.                    *)
(***************************************************************************)
icSet_004(entries, eid, data, t) ==
    LET v == [eid |-> eid, fbp |-> data.fbp, fbc |-> data.fbc, em |-> data.em,
              ph |-> data.ph, ts |-> t]
    IN  IF \E j \in 1..Len(entries) : entries[j].eid = eid
        THEN [j \in 1..Len(entries) |-> IF entries[j].eid = eid THEN v ELSE entries[j]]
        ELSE Append(entries, v)

\* lines 136-146; eid "" is null
icFindByPII(entries, em, ph, t) ==
    LET hit(v) == /\ ~(t - v.ts > IC_TTL_MS_004)
                  /\ \/ (em # "" /\ v.em # "" /\ v.em = em)
                     \/ (ph # "" /\ v.ph # "" /\ v.ph = ph)
        hits == {j \in 1..Len(entries) : hit(entries[j])}
    IN  IF hits = {} THEN ""
        ELSE entries[CHOOSE j \in hits : \A k \in hits : j <= k].eid

NoFound == [op |-> "", cli |-> NoCli, eid |-> ""]

\* No helper has been called.
NoCall == [fn |-> "", arg |-> "", out |-> "", done |-> FALSE]

(***************************************************************************)
(* The handlers.                                                            *)
(***************************************************************************)
NewReq ==
    [pc |-> "new", kind |-> "none", input |-> NoInput, body |-> NoBody,
     attempt |-> 0, calls |-> 0, lastStatus |-> NetErr, sent |-> "", error |-> NoError,
     cmp |-> "", delay |-> 0, appt_id |-> "", wire |-> NoBody, resp |-> NoResp]

InitIn(sc, secrets) ==
    /\ scope = sc
    /\ now = 1
    /\ WEBHOOK_SECRET \in secrets
    /\ IC_CACHE = EmptyMap
    /\ SENT_CACHE = EmptyMap
    /\ reqs = [i \in Handlers |-> NewReq]
    /\ okAt = EmptyMap
    /\ okFor = EmptyMap
    /\ PII_INDEX = EmptyIndex
    /\ IC_ENTRIES = <<>>
    /\ found = NoFound
    /\ call = NoCall

Init == InitIn("flow", {""})
InitInputs == InitIn("inputs", {"", Secret})
InitTime == InitIn("time", {""})
InitIdentity == InitIn("identity", {""})
InitRedelivery == InitIn("redelivery", {""})
InitSecret == InitIn("secret", {"", Secret})
InitRestamp == InitIn("restamp", {""})
InitPending == InitIn("pending", {""})
InitMerge == InitIn("merge", {""})
InitRespond == InitIn("respond", {""})

\* An inbound request reaches the server; its handler runs next.
Arrive(i, inp) ==
    /\ i <= Capacity
    /\ reqs[i].pc = "new"
    /\ \A j \in Handlers : j < i => reqs[j].pc # "new"
    /\ \A j \in Handlers : reqs[j].pc # "received"
    /\ reqs' = [reqs EXCEPT ![i].pc = "received", ![i].kind = inp.kind, ![i].input = inp]
    /\ UNCHANGED <<scope, now, WEBHOOK_SECRET, IC_CACHE, SENT_CACHE, okAt, okFor>>
    /\ UNCHANGED variantVars

\* The handler runs up to its first await: it answers, or issues attempt 1.
Handle(i) ==
    /\ reqs[i].pc = "received"
    /\ LET inp == reqs[i].input
           r == IF inp.kind = "intent"
                THEN intentSync(inp, IC_CACHE, SENT_CACHE, now)
                ELSE IF inp.kind = "sale"
                THEN saleSync(inp, WEBHOOK_SECRET, IC_CACHE, SENT_CACHE)
                ELSE bookingSync(inp, WEBHOOK_SECRET, IC_CACHE, SENT_CACHE, now)
           cmp == IF inp.kind = "intent" THEN ""
                  ELSE comparison(WEBHOOK_SECRET, inp.hdr, inp.qry)
       IN  /\ IC_CACHE' = r.ic
           /\ SENT_CACHE' = r.sc
           /\ reqs' = [reqs EXCEPT ![i] =
                 IF r.act = "respond"
                 THEN [@ EXCEPT !.pc = "done", !.input = NoInput, !.cmp = cmp,
                                !.resp = r.resp]
                 ELSE [@ EXCEPT !.pc = "fetch", !.input = NoInput, !.body = r.body,
                                !.cmp = cmp, !.attempt = 1, !.calls = 1,
                                !.appt_id = inp.appt.id,
                                !.wire = attemptPayload(r.body, r.ic)]]
    /\ UNCHANGED <<scope, now, WEBHOOK_SECRET, okAt, okFor>>
    /\ UNCHANGED variantVars

\* The external endpoint answers the pending call (or the call fails), and the
\* handler goes on to its next await or to its answer.
FetchReturn(i, status) ==
    /\ reqs[i].pc = "fetch"
    /\ LET q == reqs[i]
           o == onResponse(status)
       IN  /\ reqs' = [reqs EXCEPT ![i] =
                 IF o = "return"
                 THEN [q EXCEPT !.pc = "done", !.lastStatus = status,
                                !.sent = "returned", !.resp = afterReturn(q.kind)]
                 ELSE IF o = "backoff"
                 THEN [q EXCEPT !.pc = "backoff", !.lastStatus = status,
                                !.delay = backoffDelay(q.attempt)]
                 ELSE [q EXCEPT !.pc = "done", !.lastStatus = status,
                                !.sent = "raised",
                                !.error = IF status = NetErr THEN fetchError
                                          ELSE terminalError(status),
                                !.resp = afterRaise(q.kind)]]
           /\ SENT_CACHE' =
                 IF o = "return"
                 THEN sentAfterReturn(q.kind, SENT_CACHE, q.body.event_id, now)
                 ELSE IF o = "raise"
                 THEN sentAfterRaise(q.kind, SENT_CACHE, q.body.event_id, now)
                 ELSE SENT_CACHE
           /\ okAt' = IF o = "return" /\ q.kind = "booking"
                      THEN MapSet(okAt, q.body.event_id, now) ELSE okAt
           /\ okFor' = IF o = "return" /\ q.kind = "booking"
                       THEN MapSet(okFor, q.body.event_id, q.appt_id) ELSE okFor
    /\ UNCHANGED <<scope, now, WEBHOOK_SECRET, IC_CACHE>>
    /\ UNCHANGED variantVars

\* The backoff delay of line 107 ends: attempt++, and the loop test of line 100.
BackoffDone(i) ==
    /\ reqs[i].pc = "backoff"
    /\ LET q == reqs[i]
           next == nextAttempt(q.attempt)
       IN  /\ reqs' = [reqs EXCEPT ![i] =
                 IF loopGoesOn(next)
                 THEN [q EXCEPT !.pc = "fetch", !.attempt = next, !.calls = q.calls + 1,
                                !.delay = 0, !.wire = attemptPayload(q.body, IC_CACHE)]
                 ELSE [q EXCEPT !.pc = "done", !.attempt = next, !.delay = 0,
                                !.sent = "raised", !.error = exhaustedError,
                                !.resp = afterRaise(q.kind)]]
           /\ SENT_CACHE' =
                 IF loopGoesOn(next) THEN SENT_CACHE
                 ELSE sentAfterRaise(q.kind, SENT_CACHE, q.body.event_id, now)
    /\ UNCHANGED <<scope, now, WEBHOOK_SECRET, IC_CACHE, okAt, okFor>>
    /\ UNCHANGED variantVars

\* The answer has gone out: the request is over.
Close(i) ==
    /\ reqs[i].pc = "done"
    /\ reqs' = [reqs EXCEPT ![i] = NewReq]
    /\ UNCHANGED <<scope, now, WEBHOOK_SECRET, IC_CACHE, SENT_CACHE, okAt, okFor>>
    /\ UNCHANGED variantVars

Tick ==
    /\ now < Horizon
    /\ now' = now + 1
    /\ UNCHANGED <<scope, WEBHOOK_SECRET, IC_CACHE, SENT_CACHE, reqs, okAt, okFor>>
    /\ UNCHANGED variantVars

Next ==
    \/ \E i \in Handlers, inp \in Inputs : Arrive(i, inp)
    \/ \E i \in Handlers : Handle(i)
    \/ \E i \in Handlers, status \in ExtStatuses : FetchReturn(i, status)
    \/ \E i \in Handlers : BackoffDone(i)
    \/ \E i \in Handlers : Close(i)
    \/ Tick

Spec == Init /\ [][Next]_vars
SpecInputs == InitInputs /\ [][Next]_vars
SpecTime == InitTime /\ [][Next]_vars
SpecIdentity == InitIdentity /\ [][Next]_vars
SpecRedelivery == InitRedelivery /\ [][Next]_vars
SpecSecret == InitSecret /\ [][Next]_vars
SpecRestamp == InitRestamp /\ [][Next]_vars
SpecPending == InitPending /\ [][Next]_vars
SpecMerge == InitMerge /\ [][Next]_vars

\* A handler that has a request runs; a pending fetch settles (the external
\* service answers, or the call fails); a pending timer fires.
Progress ==
    \A i \in Handlers :
        /\ WF_vars(Handle(i))
        /\ WF_vars(\E status \in ExtStatuses : FetchReturn(i, status))
        /\ WF_vars(BackoffDone(i))
SpecRespond == InitRespond /\ [][Next]_vars /\ Progress

(***************************************************************************)
(* The variants: intent calls that fill the store, and the lookup that the  *)
(* booking handler makes for an appointment without key.                    *)
(***************************************************************************)
Cli(e, p, f, l) ==
    [id |-> "", email |-> e, phone |-> p, firstName |-> f, lastName |-> l]

VariantIntents ==
    {IntentWith(e, FBP, pii) : e \in {EID, EID2},
                               pii \in {Pii(RAW_EM, "", RAW_FN, RAW_LN),
                                        Pii("", RAW_PH, "", "")}}

VariantClients ==
    {Cli(RAW_EM, RAW_PH, "", ""), Cli("", "", RAW_FN, RAW_LN), Cli(OTHER_EM, "", RAW_FN, ""),
     NoCli}

InitIndex == InitIn("index", {""})
InitScan == InitIn("scan", {""})

\* part_005 lines 243-263: the intent handler indexes the digests of the call
IndexIntent(inp) ==
    /\ inp.event_id # ""
    /\ LET idx == piiindexFromUD(PII_INDEX, inp.event_id, hashedUD(inp.ud), now)
       IN  /\ \A f \in {"em", "ph", "nm"} : \A k \in DOMAIN idx[f] : Len(idx[f][k]) <= MaxPerKey
           /\ PII_INDEX' = idx
    /\ UNCHANGED <<scope, now, IC_ENTRIES, found, call>>
    /\ UNCHANGED serverVars

\* part_005 lines 364-370: the booking handler, for an appointment without key
MatchClient(cli) ==
    /\ found = NoFound
    /\ LET m == piimatchFromClient(PII_INDEX, cli, now)
       IN  /\ found' = [op |-> "piimatchFromClient", cli |-> cli, eid |-> m.eid]
           /\ PII_INDEX' = m.index
    /\ UNCHANGED <<scope, now, IC_ENTRIES, call>>
    /\ UNCHANGED serverVars

\* part_004 lines 196-214: the intent handler stores the digests of the call
ScanIntent(inp) ==
    /\ inp.event_id # ""
    /\ IC_ENTRIES' = icSet_004(IC_ENTRIES, inp.event_id, hashedUD(inp.ud), now)
    /\ UNCHANGED <<scope, now, PII_INDEX, found, call>>
    /\ UNCHANGED serverVars

\* part_004 lines 318-340: the booking handler, for an appointment without key
ScanClient(cli) ==
    /\ found = NoFound
    /\ LET em_h == IF cli.email # "" THEN sha256(normEmail(cli.email)) ELSE ""
           ph_h == IF cli.phone # "" THEN sha256(normPhone(cli.phone)) ELSE ""
       IN  found' = [op |-> "icFindByPII", cli |-> cli,
                     eid |-> icFindByPII(IC_ENTRIES, em_h, ph_h, now)]
    /\ UNCHANGED <<scope, now, PII_INDEX, IC_ENTRIES, call>>
    /\ UNCHANGED serverVars

\* The booking handler goes on with the key it was given.
LookupDone ==
    /\ found # NoFound
    /\ found' = NoFound
    /\ UNCHANGED <<scope, now, PII_INDEX, IC_ENTRIES, call>>
    /\ UNCHANGED serverVars

NextIndex ==
    \/ \E inp \in VariantIntents : IndexIntent(inp)
    \/ \E cli \in VariantClients : MatchClient(cli)
    \/ LookupDone
    \/ Tick

NextScan ==
    \/ \E inp \in VariantIntents : ScanIntent(inp)
    \/ \E cli \in VariantClients : ScanClient(cli)
    \/ LookupDone
    \/ Tick

SpecIndex == InitIndex /\ [][NextIndex]_vars
SpecScan == InitScan /\ [][NextScan]_vars

(***************************************************************************)
(* src/unnamed/part_005, the whole server: its IC cache (lines 125-133) and *)
(* dedup cache (lines 187-195) are the variables IC_CACHE and SENT_CACHE,   *)
(* with the clock in units of 6 h; its sendToMeta is that of server.js.     *)
(***************************************************************************)
\* part_005 lines 128-133
icGet_005(cache, eid, t) ==
    IF eid \notin DOMAIN cache THEN [v |-> NoRec, cache |-> cache]
    ELSE IF t - cache[eid].ts > PII_TTL_MS
         THEN [v |-> NoRec, cache |-> MapDelete(cache, eid)]
         ELSE [v |-> cache[eid], cache |-> cache]

\* part_005 lines 189-194
alreadySent_005(cache, eventId, t) ==
    IF eventId = "" \/ eventId \notin DOMAIN cache THEN [v |-> FALSE, cache |-> cache]
    ELSE IF t - cache[eventId] > SENT_TTL_MS_6H
         THEN [v |-> FALSE, cache |-> MapDelete(cache, eventId)]
         ELSE [v |-> TRUE, cache |-> cache]

\* every status passes
isBookedOrScheduled_any(appt) == TRUE

\* part_005 lines 225-229
isBookedOrScheduled(appt) ==
    LET st == toLowerCase(appt.status)
    IN  IF st \in {"canceled", "cancelled", "declined", "no_show", "no-show", "noshow"}
        THEN FALSE
        ELSE (IF st # "" THEN st ELSE "booked")
                \in {"booked", "scheduled", "confirmed", "pending"}

\* part_005 lines 230-240
buildUserDataFromIC_005(cache, eid, fallbackUD, t) ==
    LET g == IF eid # "" THEN icGet_005(cache, eid, t) ELSE [v |-> NoRec, cache |-> cache]
        fromIC == g.v
        pick(a, b) == IF a # "" /\ b = "" THEN a ELSE b
    IN  [ud |-> [fbp |-> pick(fromIC.fbp, fallbackUD.fbp),
                 fbc |-> pick(fromIC.fbc, fallbackUD.fbc),
                 em |-> pick(fromIC.em, fallbackUD.em),
                 ph |-> pick(fromIC.ph, fallbackUD.ph),
                 fn |-> pick(fromIC.fn, fallbackUD.fn),
                 ln |-> pick(fromIC.ln, fallbackUD.ln)],
         cache |-> g.cache]

\* What a handler of part_005 has done when it reaches its first await or its
\* answer: r as in server.js, and the PII index it leaves.
Outcome(r, idx) == [r |-> r, index |-> idx]

\* the digests of the client record, lines 375-379
clientUD(cli) ==
    [NoUD EXCEPT
       !.em = IF cli.email # "" THEN sha256(normEmail(cli.email)) ELSE "",
       !.ph = IF cli.phone # "" THEN sha256(normPhone(cli.phone)) ELSE "",
       !.fn = IF cli.firstName # "" THEN sha256(lower(cli.firstName)) ELSE "",
       !.ln = IF cli.lastName # "" THEN sha256(lower(cli.lastName)) ELSE ""]

\* part_005 lines 364-394: the handler once line 363 has read the key of the
\* appointment
bookingWithKey_005(inp, eid0, ic, idx, sc, t) ==
    LET appt == inp.appt
        m == IF eid0 = "" THEN piimatchFromClient(idx, appt.cli, t)
             ELSE [eid |-> eid0, index |-> idx]
        eid == m.eid
        b == buildUserDataFromIC_005(ic, eid, clientUD(appt.cli), t)
        user_data == b.ud
        hasAttribution == eid # "" \/ user_data.fbp # "" \/ user_data.fbc # ""
    IN  IF ~hasAttribution
        THEN Outcome(Answer(b.cache, sc, Resp(200, TRUE, "no_attribution")), m.index)
        ELSE
        LET evid == eventIdOf(appt, eid, t)
            d == alreadySent_005(sc, evid, t)
        IN  IF d.v
            THEN Outcome(Answer(b.cache, d.cache, Resp(200, TRUE, "duplicate_event")),
                         m.index)
            ELSE Outcome(Send(b.cache, d.cache, mapAppointmentToPurchase(evid, user_data)),
                         m.index)

\* part_005 lines 329-394, up to the first await
bookingSync_005(inp, secret, ic, idx, sc, t) ==
    IF ~secretOk(secret, inp.hdr, inp.qry)
    THEN Outcome(Answer(ic, sc, Resp(401, FALSE, "invalid_secret")), idx)
    ELSE IF inp.body = "garbage"
    THEN Outcome(Answer(ic, sc, Resp(200, FALSE, "error")), idx)
    ELSE IF ~inp.appt.present
    THEN Outcome(Answer(ic, sc, Resp(200, FALSE, "no_appointment")), idx)
    ELSE IF ~isOnlineBooking(inp.appt)
    THEN Outcome(Answer(ic, sc, Resp(200, TRUE, "manual_booking")), idx)
    ELSE IF ~isBookedOrScheduled(inp.appt)
    THEN Outcome(Answer(ic, sc, Resp(200, TRUE, "bad_status")), idx)
    ELSE bookingWithKey_005(inp, getEidFromAppointment(inp.appt), ic, idx, sc, t)

\* part_005 lines 243-280, up to the first await
intentSync_005(inp, ic, idx, sc, t) ==
    IF inp.body = "garbage"
    THEN Outcome(Answer(ic, sc, Resp(500, FALSE, "error")), idx)
    ELSE
    LET ud == hashedUD(inp.ud)
        K == inp.event_id
    IN  Outcome(Send(IF K # "" THEN icSet(ic, K, ud, t) ELSE ic, sc,
                     [event_name |-> "InitiateCheckout", event_id |-> K, ud |-> ud]),
                IF K # "" THEN piiindexFromUD(idx, K, ud, t) ELSE idx)

InitBook005 == InitIn("book005", {""})

\* A handler of part_005 runs up to its first await.
Handle_005(i) ==
    /\ reqs[i].pc = "received"
    /\ LET inp == reqs[i].input
           o == IF inp.kind = "intent"
                THEN intentSync_005(inp, IC_CACHE, PII_INDEX, SENT_CACHE, now)
                ELSE bookingSync_005(inp, WEBHOOK_SECRET, IC_CACHE, PII_INDEX, SENT_CACHE,
                                     now)
           r == o.r
       IN  /\ \A f \in {"em", "ph", "nm"} : \A k \in DOMAIN o.index[f] :
                 Len(o.index[f][k]) <= MaxPerKey
           /\ IC_CACHE' = r.ic
           /\ SENT_CACHE' = r.sc
           /\ PII_INDEX' = o.index
           /\ reqs' = [reqs EXCEPT ![i] =
                 IF r.act = "respond"
                 THEN [@ EXCEPT !.pc = "done", !.input = NoInput, !.resp = r.resp]
                 ELSE [@ EXCEPT !.pc = "fetch", !.input = NoInput, !.body = r.body,
                                !.attempt = 1, !.calls = 1,
                                !.appt_id = inp.appt.id,
                                !.wire = attemptPayload(r.body, r.ic)]]
    /\ UNCHANGED <<scope, now, WEBHOOK_SECRET, okAt, okFor, IC_ENTRIES, found, call>>

NextBook005 ==
    \/ \E i \in Handlers, inp \in Inputs : Arrive(i, inp)
    \/ \E i \in Handlers : Handle_005(i)
    \/ \E i \in Handlers, status \in ExtStatuses : FetchReturn(i, status)
    \/ \E i \in Handlers : BackoffDone(i)
    \/ \E i \in Handlers : Close(i)
    \/ Tick

SpecBook005 == InitBook005 /\ [][NextBook005]_vars

InitReindex == InitIn("reindex", {""})
SpecReindex == InitReindex /\ [][NextBook005]_vars

(***************************************************************************)
(* src/unnamed/part_004, the whole server: its IC cache is IC_ENTRIES, its  *)
(* dedup cache (lines 156-164) is SENT_CACHE, the clock counts units of 6 h.*)
(* Of user_data the model keeps the tokens and the digests; external_id is  *)
(* kept where the handler decides on it, in the event id.                   *)
(***************************************************************************)
\* part_004 lines 130-135, on the entries of the Map
icGet_004(entries, eid, t) ==
    LET at == {j \in 1..Len(entries) : entries[j].eid = eid}
    IN  IF at = {} THEN [v |-> NoRec, entries |-> entries]
        ELSE LET j == CHOOSE k \in at : TRUE
             IN  IF t - entries[j].ts > IC_TTL_MS_004
                 THEN [v |-> NoRec,
                       entries |-> SelectSeq(entries, LAMBDA e : e.eid # eid)]
                 ELSE [v |-> [NoRec EXCEPT !.fbp = entries[j].fbp, !.fbc = entries[j].fbc,
                                           !.em = entries[j].em, !.ph = entries[j].ph,
                                           !.ts = entries[j].ts],
                       entries |-> entries]

\* line 327: prefer clientInfo.id, else appointment.id
possibleExternal(appt) == IF appt.cli.id # "" THEN appt.cli.id ELSE appt.id

\* line 345: the handler goes on when it has a key or an external_id
mayForward(eid, external_id) == ~(eid = "" /\ external_id = "")

Outcome_004(r, entries) == [r |-> r, entries |-> entries]

\* part_004 lines 313-374: the handler once line 312 has read the key of the
\* appointment
bookingWithKey_004(inp, eid0, entries, sc, t) ==
    LET appt == inp.appt
        ud0 == clientUD(appt.cli)
        external_id == possibleExternal(appt)
        K == IF eid0 = "" THEN icFindByPII(entries, ud0.em, ud0.ph, t) ELSE ""
        cached0 == IF K # "" THEN entries[CHOOSE j \in 1..Len(entries) : entries[j].eid = K]
                   ELSE [fbp |-> "", fbc |-> ""]
        eid == IF eid0 # "" THEN eid0 ELSE K
        baseUD == [ud0 EXCEPT !.fbp = cached0.fbp, !.fbc = cached0.fbc]
    IN  IF ~mayForward(eid, external_id)
        THEN Outcome_004(Answer(EmptyMap, sc, Resp(200, TRUE, "no_attribution")), entries)
        ELSE
        LET event_id == IF eid # "" THEN eid ELSE "external-" \o external_id
            d == alreadySent_005(sc, event_id, t)
        IN  IF d.v
            THEN Outcome_004(Answer(EmptyMap, d.cache, Resp(200, TRUE, "duplicate_event")),
                             entries)
            ELSE
            LET g == IF eid # "" THEN icGet_004(entries, event_id, t)
                     ELSE [v |-> NoRec, entries |-> entries]
                cached == g.v
                user_data == [baseUD EXCEPT
                    !.fbp = IF cached.fbp # "" /\ baseUD.fbp = "" THEN cached.fbp
                            ELSE baseUD.fbp,
                    !.fbc = IF cached.fbc # "" /\ baseUD.fbc = "" THEN cached.fbc
                            ELSE baseUD.fbc]
            IN  Outcome_004(Send(EmptyMap, d.cache,
                                 mapAppointmentToPurchase(event_id, user_data)),
                            g.entries)

\* part_004 lines 279-374, up to the first await
bookingSync_004(inp, secret, entries, sc, t) ==
    IF ~secretOk(secret, inp.hdr, inp.qry)
    THEN Outcome_004(Answer(EmptyMap, sc, Resp(401, FALSE, "invalid_secret")), entries)
    ELSE IF inp.body = "garbage"
    THEN Outcome_004(Answer(EmptyMap, sc, Resp(200, FALSE, "error")), entries)
    ELSE IF ~inp.appt.present
    THEN Outcome_004(Answer(EmptyMap, sc, Resp(200, FALSE, "no_appointment")), entries)
    ELSE IF ~isOnlineBooking(inp.appt)
    THEN Outcome_004(Answer(EmptyMap, sc, Resp(200, TRUE, "manual_booking")), entries)
    ELSE bookingWithKey_004(inp, getEidFromAppointment(inp.appt), entries, sc, t)

\* part_004 lines 196-231, up to the first await
intentSync_004(inp, entries, sc, t) ==
    IF inp.body = "garbage"
    THEN Outcome_004(Answer(EmptyMap, sc, Resp(500, FALSE, "error")), entries)
    ELSE
    LET ud == hashedUD(inp.ud)
        K == inp.event_id
    IN  Outcome_004(Send(EmptyMap, sc,
                         [event_name |-> "InitiateCheckout", event_id |-> K, ud |-> ud]),
                    IF K # "" THEN icSet_004(entries, K, ud, t) ELSE entries)

InitBook004 == InitIn("book004", {""})

\* A handler of part_004 runs up to its first await.
Handle_004(i) ==
    /\ reqs[i].pc = "received"
    /\ LET inp == reqs[i].input
           o == IF inp.kind = "intent"
                THEN intentSync_004(inp, IC_ENTRIES, SENT_CACHE, now)
                ELSE bookingSync_004(inp, WEBHOOK_SECRET, IC_ENTRIES, SENT_CACHE, now)
           r == o.r
       IN  /\ SENT_CACHE' = r.sc
           /\ IC_ENTRIES' = o.entries
           /\ reqs' = [reqs EXCEPT ![i] =
                 IF r.act = "respond"
                 THEN [@ EXCEPT !.pc = "done", !.input = NoInput, !.resp = r.resp]
                 ELSE [@ EXCEPT !.pc = "fetch", !.input = NoInput, !.body = r.body,
                                !.attempt = 1, !.calls = 1,
                                !.appt_id = inp.appt.id,
                                !.wire = attemptPayload(r.body, IC_CACHE)]]
    /\ UNCHANGED <<scope, now, WEBHOOK_SECRET, IC_CACHE, okAt, okFor, PII_INDEX, found, call>>

NextBook004 ==
    \/ \E i \in Handlers, inp \in Inputs : Arrive(i, inp)
    \/ \E i \in Handlers : Handle_004(i)
    \/ \E i \in Handlers, status \in ExtStatuses : FetchReturn(i, status)
    \/ \E i \in Handlers : BackoffDone(i)
    \/ \E i \in Handlers : Close(i)
    \/ Tick

SpecBook004 == InitBook004 /\ [][NextBook004]_vars

(***************************************************************************)
(* The helpers of lines 72-94 and 151-188 on their own: a call is drawn,    *)
(* and the helper is applied to its argument.                               *)
(***************************************************************************)
InitCall(sc, fn, args) ==
    /\ scope = sc
    /\ now = 1
    /\ WEBHOOK_SECRET = ""
    /\ IC_CACHE = EmptyMap
    /\ SENT_CACHE = EmptyMap
    /\ reqs = [i \in Handlers |-> NewReq]
    /\ okAt = EmptyMap
    /\ okFor = EmptyMap
    /\ PII_INDEX = EmptyIndex
    /\ IC_ENTRIES = <<>>
    /\ found = NoFound
    /\ \E x \in args : call = [fn |-> fn, arg |-> x, out |-> "", done |-> FALSE]

Returns(v) ==
    /\ ~call.done
    /\ call' = [call EXCEPT !.out = v, !.done = TRUE]
    /\ UNCHANGED <<scope, now, PII_INDEX, IC_ENTRIES, found>>
    /\ UNCHANGED serverVars

\* Phone numbers as people write them: an optional + or bracket, an optional
\* country digit, an area code, and two groups, with or without separators.
PhoneInputs ==
    {lead \o cc \o sepA \o area \o sepB \o "555" \o sepC \o last :
        lead \in {"", "+", " ", "("},
        cc \in {"", "1", "5"},
        sepA \in {"", " ", "-", "."},
        area \in {"514", "14"},
        sepB \in {"", " ", "-", ") ", "+"},
        sepC \in {"", "-", "."},
        last \in {"0100", "010", "01000"}}
    \cup {"+", "n/a"}

InitPhone == InitCall("phone", "normPhone", PhoneInputs)
CallNormPhone == call.fn = "normPhone" /\ Returns(normPhone(call.arg))
NextPhone == CallNormPhone
SpecPhone == InitPhone /\ [][NextPhone]_vars

\* The clock of the host when safeEventTime is called: seconds since the epoch.
NOW_S == 1700000000
Day == 24 * 60 * 60
Hour == 60 * 60

DateAt(s, ms) == [kind |-> "date", s |-> s, ms |-> ms]

\* d, k milliseconds later (k < 1000)
plusMs(d, k) ==
    IF d.ms + k >= 1000 THEN [d EXCEPT !.s = d.s + 1, !.ms = d.ms + k - 1000]
    ELSE [d EXCEPT !.ms = d.ms + k]

\* The calls drawn: the clock at line 73, the time that passes up to line 74, and
\* a source timestamp: none, one that is no date, or a date around the clock.
ClockInputs ==
    {[tsIn |-> ts, first |-> at, second |-> plusMs(at, gap)] :
        at \in {DateAt(NOW_S + k, ms) : k \in {0, 1}, ms \in {0, 500, 999}},
        gap \in {0, 1},
        ts \in {[kind |-> "absent", s |-> 0, ms |-> 0],
                [kind |-> "invalid", s |-> 0, ms |-> 0]}
               \cup {DateAt(NOW_S + off, ms) :
                       off \in {0 - 30 * Day, 0 - 7 * Day - 1, 0 - 7 * Day, 1 - 7 * Day,
                                0 - Hour, 0 - 1, 0, 1, 2, Hour},
                       ms \in {0, 999}}}

InitClock == InitCall("clock", "safeEventTime", ClockInputs)
CallSafeEventTime ==
    /\ call.fn = "safeEventTime"
    /\ Returns(safeEventTime(call.arg.tsIn, call.arg.first, call.arg.second))
NextClock == CallSafeEventTime
SpecClock == InitClock /\ [][NextClock]_vars

\* Referrers and notes: a page address with and without eid parameter, an
\* address that has a fragment, and notes that hold a link, a bare query, or a text
\* with &eid= in it.
REF_WITH_EID == "https://altheatherapie.ca/en/book?utm_source=fb&eid=ref111"
REF_PLAIN == "https://altheatherapie.ca/en/book"
REF_FRAGMENT == "https://altheatherapie.ca/en/book#step2"
NOTE_LINK == "came from https://altheatherapie.ca/en/book?eid=note222"
NOTE_QUERY == "?eid=note222"
NOTE_AMP == "ref=ad&eid=note333"

ExtractInputs ==
    {[NoAppt EXCEPT !.present = TRUE, !.obci = TRUE, !.id = APPT_ID,
                    !.eid = e, !.meta_eid = m, !.obciRef = o, !.referrerUrl = r,
                    !.notes = n, !.clientNotes = c] :
        e \in {"", EID}, m \in {"", EID2},
        o \in {"", REF_WITH_EID, REF_PLAIN},
        r \in {"", REF_FRAGMENT},
        n \in {"", NOTE_LINK, NOTE_QUERY},
        c \in {"", NOTE_AMP}}

InitExtract == InitCall("extract", "getEidFromAppointment", ExtractInputs)
CallGetEid ==
    /\ call.fn = "getEidFromAppointment"
    /\ Returns(getEidFromAppointment(call.arg))
NextExtract == CallGetEid
SpecExtract == InitExtract /\ [][NextExtract]_vars

(***************************************************************************)
(* What the claims speak of.                                                *)
(***************************************************************************)
InFlight(q) == q.pc \in {"fetch", "backoff"}

\* The handler of i runs its synchronous part in this step.
Handled(i) == reqs[i].pc = "received" /\ reqs'[i].pc # "received"

\* A booking request that gets as far as line 348, where its event id is resolved.
Resolves(inp) ==
    /\ inp.kind = "booking"
    /\ secretOk(WEBHOOK_SECRET, inp.hdr, inp.qry)
    /\ inp.body # "garbage"
    /\ inp.appt.present
    /\ inp.appt.obci
    /\ (inp.appt.eid # "" \/ inp.appt.ref_fbc # "" \/ inp.appt.ref_fbp # "")

ResolvedId(inp) == eventIdOf(inp.appt, getEidFromAppointment(inp.appt), now)

Skipped(q, why) ==
    q.pc = "done" /\ q.resp = Resp(200, TRUE, why) /\ q.calls = 0 /\ q.sent = ""

\* C1: once a Purchase for event id E has been delivered (2xx, markSent), a booking
\* that resolves to E and is handled at most 24 h later is answered 200 with
\* skipped = duplicate_event and makes no external call.
C1_DuplicateAfterSuccess ==
    [][\A i \in Handlers :
        LET inp == reqs[i].input
            E == ResolvedId(inp)
        IN  (/\ Handled(i)
             /\ Resolves(inp)
             /\ E \in DOMAIN okAt
             /\ now - okAt[E] <= SENT_TTL_MS)
            => Skipped(reqs'[i], "duplicate_event")]_vars

C1_Witness ==
    \E i \in Handlers :
        /\ Skipped(reqs[i], "duplicate_event")
        /\ EID \in DOMAIN okAt
        /\ now - okAt[EID] = SENT_TTL_MS

\* C2: every key of SENT_CACHE was recorded when sendToMeta returned on a 2xx answer
\* for a Purchase with that event id, and a sendToMeta that raises leaves SENT_CACHE
\* as it was.
C2_MarkedOnSuccessOnly ==
    /\ [](\A k \in DOMAIN SENT_CACHE : k \in DOMAIN okAt /\ SENT_CACHE[k] = okAt[k])
    /\ [][\A i \in Handlers :
            (reqs[i].sent = "" /\ reqs'[i].sent = "raised") => SENT_CACHE' = SENT_CACHE]_vars

\* A delivery of EID has failed, nothing is marked, and a second booking for EID
\* has passed the dedup check and is calling the endpoint.
C2_Witness ==
    \E i, j \in Handlers :
        /\ reqs[i].pc = "done" /\ reqs[i].kind = "booking" /\ reqs[i].sent = "raised"
        /\ reqs[i].body.event_id = EID
        /\ reqs[j].pc = "fetch" /\ reqs[j].calls = 1 /\ reqs[j].body.event_id = EID
        /\ SENT_CACHE = EmptyMap

\* C3: no two booking handlers are past the alreadySent check and inside sendToMeta
\* for the same event id at the same time.
C3_AtMostOneDelivery ==
    \A i, j \in Handlers :
        (/\ i # j
         /\ reqs[i].kind = "booking" /\ InFlight(reqs[i])
         /\ reqs[j].kind = "booking" /\ InFlight(reqs[j]))
        => reqs[i].body.event_id # reqs[j].body.event_id

\* A status of the 5xx class, or 429.
ServerOrRateLimit(status) == status \in 500..599 \/ status = 429
Success2xx(status) == status \in 200..299

\* C4: sendToMeta makes between 1 and 3 external calls; it calls again exactly when
\* the answer was 5xx or 429 and fewer than 3 calls were made; it returns at the
\* first 2xx answer and raises at the first other non-2xx answer (three 503: three
\* calls, then an error; one 404: one call, then an error).
C4_RetryPolicy ==
    /\ [](\A i \in Handlers :
            LET q == reqs[i] IN
            /\ (InFlight(q) \/ q.sent # "") => q.calls \in 1..3
            /\ q.pc = "backoff" => ServerOrRateLimit(q.lastStatus)
            /\ q.sent = "returned" => Success2xx(q.lastStatus)
            /\ q.sent = "raised" =>
                 /\ ~Success2xx(q.lastStatus)
                 /\ ServerOrRateLimit(q.lastStatus) => q.calls = 3)
    /\ [][\A i \in Handlers :
            LET q == reqs[i]
                n == reqs'[i]
            IN  /\ (q.pc = "fetch" /\ n.pc # "fetch" /\ n.lastStatus # NetErr) =>
                     /\ n.calls = q.calls
                     /\ Success2xx(n.lastStatus) => n.pc = "done" /\ n.sent = "returned"
                     /\ ServerOrRateLimit(n.lastStatus) => n.pc = "backoff" /\ n.sent = ""
                     /\ (~Success2xx(n.lastStatus) /\ ~ServerOrRateLimit(n.lastStatus))
                            => n.pc = "done" /\ n.sent = "raised"
                /\ (q.pc = "backoff" /\ n.pc # "backoff") =>
                     IF q.calls < 3
                     THEN n.pc = "fetch" /\ n.calls = q.calls + 1 /\ n.sent = ""
                     ELSE n.pc = "done" /\ n.calls = q.calls /\ n.sent = "raised"
                /\ (n.calls > q.calls /\ q.calls >= 1) => q.pc = "backoff"]_vars

\* Three answers 503: three calls were made and sendToMeta has raised.
C4_Witness ==
    \E i \in Handlers :
        reqs[i].pc = "done" /\ reqs[i].sent = "raised" /\ reqs[i].lastStatus = 503
        /\ reqs[i].calls = 3

\* A booking request that has passed the secret check and carries an appointment.
Classified(inp) ==
    /\ inp.kind = "booking"
    /\ secretOk(WEBHOOK_SECRET, inp.hdr, inp.qry)
    /\ inp.body # "garbage"
    /\ inp.appt.present

\* The event id has an entry in the dedup store that has not expired.
InDedupStore(E) == E \in DOMAIN SENT_CACHE /\ now - SENT_CACHE[E] <= SENT_TTL_MS

\* No entry is added to (or rewritten in) SENT_CACHE in this step.
NothingMarked ==
    \A k \in DOMAIN SENT_CACHE' : k \in DOMAIN SENT_CACHE /\ SENT_CACHE'[k] = SENT_CACHE[k]

\* C5: a booking that is not online, or has no attribution (no eid, no fbc/fbp), or
\* whose event id is in the dedup store, is answered 200 with skipped =
\* manual_booking, no_attribution or duplicate_event; no external call is made and
\* nothing is added to SENT_CACHE.
C5_PolicySkips ==
    [][\A i \in Handlers :
        LET inp == reqs[i].input
            a == inp.appt
            attributed == a.eid # "" \/ a.ref_fbc # "" \/ a.ref_fbp # ""
        IN  (Handled(i) /\ Classified(inp)) =>
              /\ ~a.obci => (Skipped(reqs'[i], "manual_booking") /\ NothingMarked)
              /\ (a.obci /\ ~attributed)
                    => (Skipped(reqs'[i], "no_attribution") /\ NothingMarked)
              /\ (a.obci /\ attributed /\ InDedupStore(ResolvedId(inp)))
                    => (Skipped(reqs'[i], "duplicate_event") /\ NothingMarked)]_vars

C5_Witness ==
    \E i \in Handlers :
        Skipped(reqs[i], "no_attribution") /\ SENT_CACHE # EmptyMap

\* The Attribution Store holds no record for K that icGet would return.
NoLiveRecord(K) == K \notin DOMAIN IC_CACHE \/ now - IC_CACHE[K].ts > IC_TTL_MS

\* C6: an online booking that carries an eid for which the Attribution Store holds
\* no live record, and no fbc/fbp of its own, is answered skipped = no_attribution
\* and is not delivered.
C6_NoRecordNoDelivery ==
    [][\A i \in Handlers :
        LET inp == reqs[i].input
            a == inp.appt
        IN  (/\ Handled(i) /\ Classified(inp)
             /\ a.obci /\ a.eid # "" /\ a.ref_fbc = "" /\ a.ref_fbp = ""
             /\ NoLiveRecord(a.eid))
            => Skipped(reqs'[i], "no_attribution")]_vars

\* C7: a booking whose status is cancelled is skipped before any external call.
C7_CancelledNeverDelivered ==
    [][\A i \in Handlers :
        LET inp == reqs[i].input IN
        (Handled(i) /\ Classified(inp) /\ inp.appt.status = "cancelled")
            => (reqs'[i].pc = "done" /\ reqs'[i].calls = 0)]_vars

\* C8: isOnlineBooking(record) is true if and only if the record carries
\* onlineBookingClientInfo, whatever its source, creator type and channel; and the
\* handler skips a record as manual_booking exactly when it does not carry it.
C8_FailClosed ==
    /\ [](\A i \in Handlers :
            LET a == reqs[i].input.appt IN
            (reqs[i].pc = "received" /\ a.present) => (isOnlineBooking(a) <=> a.obci))
    /\ [][\A i \in Handlers :
            LET inp == reqs[i].input IN
            (Handled(i) /\ Classified(inp))
                => (Skipped(reqs'[i], "manual_booking") <=> ~inp.appt.obci)]_vars

C8_Witness ==
    \E i \in Handlers :
        Skipped(reqs[i], "manual_booking") /\ WEBHOOK_SECRET = Secret

\* C9: when sendToMeta raises, the inbound request is answered with a non-error
\* status, on the intent webhook and on the booking webhook.
C9_FailedDeliveryAnswered2xx ==
    \A i \in Handlers :
        (reqs[i].pc = "done" /\ reqs[i].sent = "raised") => reqs[i].resp.status < 400

Presented(inp) == IF inp.hdr # "" THEN inp.hdr ELSE inp.qry

\* C11: with a secret configured, a booking request that presents no credential or
\* a wrong one is answered 401, makes no external call and leaves IC_CACHE and
\* SENT_CACHE as they were; with no secret configured no request is answered 401.
C11_UnauthorizedNoEffect ==
    /\ [](\A i \in Handlers : WEBHOOK_SECRET = "" => reqs[i].resp.status # 401)
    /\ [][\A i \in Handlers :
            LET inp == reqs[i].input IN
            (/\ Handled(i) /\ inp.kind = "booking"
             /\ WEBHOOK_SECRET # "" /\ Presented(inp) # WEBHOOK_SECRET)
            => /\ reqs'[i].pc = "done"
               /\ reqs'[i].resp = Resp(401, FALSE, "invalid_secret")
               /\ reqs'[i].calls = 0 /\ reqs'[i].sent = ""
               /\ IC_CACHE' = IC_CACHE
               /\ SENT_CACHE' = SENT_CACHE]_vars

\* A request was turned away with 401 while both stores held entries.
C11_Witness ==
    \E i \in Handlers :
        /\ reqs[i].pc = "done" /\ reqs[i].resp.status = 401 /\ reqs[i].calls = 0
        /\ IC_CACHE # EmptyMap /\ SENT_CACHE # EmptyMap

\* An online booking that carries the key K and no fbc/fbp of its own.
RefersTo(inp, K) ==
    /\ Classified(inp)
    /\ inp.appt.obci
    /\ inp.appt.eid = K
    /\ inp.appt.ref_fbc = "" /\ inp.appt.ref_fbp = ""

\* C12: a record written by icSet(K, ...) at time T (and not rewritten since) is
\* returned by icGet(K) at every time up to T + IC_TTL_MS - 1, and at every time from
\* T + IC_TTL_MS + 1 on icGet(K) returns null and evicts it; a booking handler that
\* looks K up sends the record's tokens in the first case and none in the second.
C12_AttributionTTL ==
    /\ [](\A K \in DOMAIN IC_CACHE :
            LET age == now - IC_CACHE[K].ts
                g == icGet(IC_CACHE, K, now)
            IN  /\ age <= IC_TTL_MS - 1 => (g.v = IC_CACHE[K] /\ g.cache = IC_CACHE)
                /\ age >= IC_TTL_MS + 1 => (g.v = NoRec /\ K \notin DOMAIN g.cache))
    /\ [][\A i \in Handlers :
            LET inp == reqs[i].input
                K == inp.event_id
            IN  (Handled(i) /\ inp.kind = "intent" /\ inp.body # "garbage" /\ K # "")
                => (K \in DOMAIN IC_CACHE' /\ IC_CACHE'[K].ts = now)]_vars
    /\ [][\A i \in Handlers :
            LET inp == reqs[i].input
                K == inp.appt.eid
            IN  (Handled(i) /\ RefersTo(inp, K) /\ K # "" /\ K \in DOMAIN IC_CACHE)
                => LET age == now - IC_CACHE[K].ts IN
                   /\ age <= IC_TTL_MS - 1 =>
                        /\ IC_CACHE' = IC_CACHE
                        /\ reqs'[i].pc = "fetch" =>
                             /\ reqs'[i].body.ud.fbp = IC_CACHE[K].fbp
                             /\ reqs'[i].body.ud.fbc = IC_CACHE[K].fbc
                   /\ age >= IC_TTL_MS + 1 =>
                        /\ K \notin DOMAIN IC_CACHE'
                        /\ reqs'[i].pc = "fetch" => reqs'[i].body.ud = NoUD]_vars

\* A booking handled IC_TTL_MS - 1 after the intent call sends the record's fbp.
C12_Witness ==
    \E i \in Handlers :
        /\ reqs[i].kind = "booking" /\ reqs[i].pc = "fetch"
        /\ reqs[i].body.event_id = EID /\ reqs[i].body.ud.fbp = FBP
        /\ EID \in DOMAIN IC_CACHE
        /\ now - IC_CACHE[EID].ts = IC_TTL_MS - 1

\* An intent call whose body parses.
WellFormedIntent(inp) == inp.kind = "intent" /\ inp.body # "garbage"

LiveRecord(K) == K \in DOMAIN IC_CACHE /\ now - IC_CACHE[K].ts <= IC_TTL_MS

\* C14: an online booking with metadata.eid = K and no fbp/fbc of its own, handled
\* while IC_CACHE holds a live record for K, is sent as a Purchase with event_id K
\* whose user_data carries the record's fbp and fbc; once that Purchase has been
\* delivered (2xx), an identical booking call handled within SENT_TTL_MS is answered
\* skipped = duplicate_event and makes no external call.
C14_MergedThenDeduplicated ==
    [][\A i \in Handlers :
        LET inp == reqs[i].input
            K == inp.appt.eid
        IN  (Handled(i) /\ RefersTo(inp, K) /\ K # "" /\ LiveRecord(K)) =>
              IF K \in DOMAIN okAt /\ now - okAt[K] <= SENT_TTL_MS
              THEN Skipped(reqs'[i], "duplicate_event")
              ELSE /\ reqs'[i].pc = "fetch"
                   /\ reqs'[i].calls = 1
                   /\ reqs'[i].body.event_name = "Purchase"
                   /\ reqs'[i].body.event_id = K
                   /\ reqs'[i].body.ud.fbp = IC_CACHE[K].fbp
                   /\ reqs'[i].body.ud.fbc = IC_CACHE[K].fbc]_vars

\* Scenario B: the Purchase for abc123 went out with the fbp of the intent call, was
\* accepted, and the key is marked as sent.
C14_Witness ==
    \E i \in Handlers :
        /\ reqs[i].kind = "booking" /\ reqs[i].pc = "done" /\ reqs[i].sent = "returned"
        /\ reqs[i].body.event_name = "Purchase" /\ reqs[i].body.event_id = EID
        /\ reqs[i].body.ud.fbp = FBP
        /\ LiveRecord(EID) /\ IC_CACHE[EID].fbp = FBP
        /\ EID \in DOMAIN SENT_CACHE

RawValues == {RAW_EM, RAW_PH, RAW_FN, RAW_LN}
Digests == {H_EM, H_PH, H_FN, H_LN, HH_EM}

\* Every em/ph/fn/ln of the bundle is absent or a digest.
HashedOnly(ud) ==
    \A v \in {ud.em, ud.ph, ud.fn, ud.ln} : v = "" \/ (v \in Digests /\ v \notin RawValues)

\* What the code is to make of an inbound identity value.
DigestOf(v) ==
    CASE v = "" -> ""
      [] v = RAW_EM -> H_EM
      [] v = RAW_PH -> H_PH
      [] v = RAW_FN -> H_FN
      [] v = RAW_LN -> H_LN
      [] v = OTHER_EM -> H_OTHER_EM
      [] OTHER -> v

\* C15: every em/ph/fn/ln held in IC_CACHE and every em/ph/fn/ln of an outbound
\* event's user_data is a digest (64 lowercase hex characters), never a raw email,
\* phone or name: an intent call stores and sends the digest of each raw value it
\* carries, and a booking sends digests of its client record or of the stored record.
C15_NoRawPII ==
    /\ [](/\ \A K \in DOMAIN IC_CACHE : HashedOnly(IC_CACHE[K])
          /\ \A i \in Handlers : HashedOnly(reqs[i].body.ud))
    /\ [][\A i \in Handlers :
            LET inp == reqs[i].input
                out == reqs'[i].body.ud
            IN  (Handled(i) /\ WellFormedIntent(inp)) =>
                  /\ out.em = DigestOf(inp.ud.em) /\ out.ph = DigestOf(inp.ud.ph)
                  /\ out.fn = DigestOf(inp.ud.fn) /\ out.ln = DigestOf(inp.ud.ln)
                  /\ inp.event_id # "" =>
                       LET rec == IC_CACHE'[inp.event_id] IN
                       /\ rec.em = out.em /\ rec.ph = out.ph
                       /\ rec.fn = out.fn /\ rec.ln = out.ln]_vars

\* The digests of a raw email, phone and names are in the store, and a Purchase
\* built from a client record with the same raw values is on its way.
C15_Witness ==
    \E i \in Handlers :
        /\ EID \in DOMAIN IC_CACHE
        /\ IC_CACHE[EID].em = H_EM /\ IC_CACHE[EID].ph = H_PH
        /\ IC_CACHE[EID].fn = H_FN /\ IC_CACHE[EID].ln = H_LN
        /\ reqs[i].kind = "booking" /\ reqs[i].pc = "fetch"
        /\ reqs[i].body.ud.em = H_EM /\ reqs[i].body.ud.ph = H_PH

\* C16: the event_id of the outbound Purchase, which is the identifier that
\* alreadySent checks and markSent records, is the attribution key of the booking
\* when it has one and otherwise its native identifier, appointment.id: it depends
\* on the booking record alone, so that the same record resolves to the same
\* identifier whenever it is delivered again.
C16_StableEventId ==
    [][\A i \in Handlers :
        LET inp == reqs[i].input
            a == inp.appt
        IN  (Handled(i) /\ Resolves(inp) /\ reqs'[i].pc = "fetch") =>
              /\ reqs'[i].body.event_id = (IF a.eid # "" THEN a.eid ELSE a.id)
              /\ reqs'[i].body.event_id # ""]_vars

\* C17: whenever sendToMeta raises after an HTTP response, after a non-retryable
\* status as after the third retryable one, the error carries the status code and
\* the body of the response that failed.
C17_ErrorCarriesResponse ==
    \A i \in Handlers :
        (reqs[i].sent = "raised" /\ reqs[i].lastStatus # NetErr)
            => (reqs[i].error.status = reqs[i].lastStatus /\ reqs[i].error.text)

\* C18: a call that ends without an HTTP response is retried like a 5xx answer:
\* sendToMeta raises on it only when it was the third call.
C18_NetworkFailureRetried ==
    \A i \in Handlers :
        (reqs[i].sent = "raised" /\ reqs[i].lastStatus = NetErr) => reqs[i].calls = 3

\* A fallback lookup is made in this step.
LooksUp(op) == found = NoFound /\ found'.op = op

\* The entries of the PII index filed under the digest of the client's email, of
\* the client's phone or of the client's two names.
Matching(idx, cli) ==
    LET under(m, key) == IF key # "" /\ key \in DOMAIN m
                         THEN {m[key][j] : j \in 1..Len(m[key])} ELSE {}
        nm == IF cli.firstName = RAW_FN /\ cli.lastName = RAW_LN THEN H_NM ELSE ""
    IN  under(idx.em, DigestOf(cli.email)) \cup under(idx.ph, DigestOf(cli.phone))
        \cup under(idx.nm, nm)

LiveMatching(idx, cli, t) == {e \in Matching(idx, cli) : t - e.ts <= PII_TTL_MS}

\* C19: piimatchFromClient returns null exactly when no index entry that is at most
\* PII_TTL_MS old is filed under the digest of the client's email, phone or names;
\* otherwise it returns the eid of such an entry, and no such entry is younger than
\* the one whose eid it returns.
C19_IndexReturnsMostRecentLive ==
    [][LooksUp("piimatchFromClient") =>
        LET K == found'.eid
            L == LiveMatching(PII_INDEX, found'.cli, now)
        IN  /\ (K = "") <=> (L = {})
            /\ K # "" => \E e \in L : e.eid = K /\ \A f \in L : f.ts <= e.ts
            /\ \A f \in {"em", "ph", "nm"} : \A k \in DOMAIN PII_INDEX'[f] :
                  \A j \in 1..Len(PII_INDEX'[f][k]) :
                      now - PII_INDEX'[f][k][j].ts <= PII_TTL_MS]_vars

\* Two intent calls with the same email, for abc123 and later for def456: the
\* lookup for a client with that email has given def456.
C19_Witness ==
    /\ found.op = "piimatchFromClient" /\ found.eid = EID2
    /\ \E e1, e2 \in Matching(PII_INDEX, found.cli) :
          e1.eid = EID /\ e2.eid = EID2 /\ e1.ts < e2.ts

\* The entries of part_004's IC cache that have not expired and whose em or ph
\* is the digest of the client's email or phone.
ScanMatching(entries, cli, t) ==
    {v \in {entries[j] : j \in 1..Len(entries)} :
        /\ t - v.ts <= IC_TTL_MS_004
        /\ \/ (cli.email # "" /\ v.em = DigestOf(cli.email))
           \/ (cli.phone # "" /\ v.ph = DigestOf(cli.phone))}

\* C20: icFindByPII returns null exactly when no record that has not expired has
\* the client's hashed email or phone; otherwise it returns such a record, and no
\* such record has a higher timestamp than the one it returns.
C20_ScanReturnsMostRecent ==
    [][LooksUp("icFindByPII") =>
        LET K == found'.eid
            L == ScanMatching(IC_ENTRIES, found'.cli, now)
        IN  /\ (K = "") <=> (L = {})
            /\ K # "" => \E e \in L : e.eid = K /\ \A f \in L : f.ts <= e.ts]_vars

\* C21: in part_005, a booking without explicit key (no metadata.eid, none in
\* the referrer) is forwarded only if the record that the PII fallback led to gave a
\* click-id or browser-id token: the Purchase that goes out carries an fbc or fbp.
C21_FallbackNeedsToken ==
    [][\A i \in Handlers :
        LET inp == reqs[i].input IN
        (/\ Handled(i) /\ Classified(inp)
         /\ getEidFromAppointment(inp.appt) = ""
         /\ reqs'[i].pc = "fetch")
        => (reqs'[i].body.ud.fbp # "" \/ reqs'[i].body.ud.fbc # "")]_vars

\* The statuses as the booking platform writes them, in any case.
IneligibleStatuses == {"Cancelled", "canceled", "declined", "No-Show", "no_show", "NOSHOW"}
EligibleStatuses == {"booked", "Confirmed", "scheduled", "PENDING"}

\* C23: isBookedOrScheduled is false for every cancelled/canceled, declined and
\* no-show status and true for booked, confirmed, scheduled and pending, whatever
\* the case of the letters; an online booking that fails it is answered skipped =
\* bad_status with no external call, and no store is looked up: IC_CACHE, PII_INDEX
\* and SENT_CACHE stay as they were, stale entries included.
C23_StatusEligibility ==
    /\ [](\A i \in Handlers :
            LET a == reqs[i].input.appt IN
            (reqs[i].pc = "received" /\ a.present) =>
                /\ a.status \in IneligibleStatuses => ~isBookedOrScheduled(a)
                /\ a.status \in EligibleStatuses => isBookedOrScheduled(a))
    /\ [][\A i \in Handlers :
            LET inp == reqs[i].input IN
            (Handled(i) /\ Classified(inp) /\ inp.appt.obci) =>
                /\ inp.appt.status \in IneligibleStatuses =>
                      /\ Skipped(reqs'[i], "bad_status")
                      /\ IC_CACHE' = IC_CACHE /\ PII_INDEX' = PII_INDEX
                      /\ SENT_CACHE' = SENT_CACHE
                /\ inp.appt.status \in EligibleStatuses =>
                      ~Skipped(reqs'[i], "bad_status")
                /\ Skipped(reqs'[i], "bad_status") => ~isBookedOrScheduled(inp.appt)]_vars

\* A booking was turned away for its status while the index held an entry that
\* any lookup would have dropped.
C23_Witness ==
    \E i \in Handlers :
        /\ Skipped(reqs[i], "bad_status")
        /\ H_EM \in DOMAIN PII_INDEX.em
        /\ now - PII_INDEX.em[H_EM][1].ts > PII_TTL_MS

InboundIdentity(inp) ==
    IF inp.kind = "intent" THEN inp.ud
    ELSE [em |-> inp.appt.cli.email, ph |-> inp.appt.cli.phone,
          fn |-> inp.appt.cli.firstName, ln |-> inp.appt.cli.lastName]

\* C24: hashing is idempotent on the intent path and on the booking path: an
\* inbound email, phone or name that is already a digest (the token of some value)
\* goes out unchanged in the event built from it.
C24_HashIdempotent ==
    [][\A i \in Handlers :
        LET inp == reqs[i].input
            v == InboundIdentity(inp)
            out == reqs'[i].body.ud
        IN  (Handled(i) /\ reqs'[i].pc = "fetch") =>
              /\ v.em \in Digests => out.em = v.em
              /\ v.ph \in Digests => out.ph = v.ph
              /\ v.fn \in Digests => out.fn = v.fn
              /\ v.ln \in Digests => out.ln = v.ln]_vars

\* The characters that people put between the digits of a phone number.
Separators == {" ", "-", "(", ")", "."}

CharsOf(s) == {SubSeq(s, j, j) : j \in 1..Len(s)}

\* The digits of s, in their order.
RECURSIVE DigitsOf(_)
DigitsOf(s) ==
    IF s = "" THEN ""
    ELSE (IF SubSeq(s, 1, 1) \in DigitChars THEN SubSeq(s, 1, 1) ELSE "")
         \o DigitsOf(SubSeq(s, 2, Len(s)))

\* C25: normPhone, on an input made of digits and separators only: with exactly 10
\* digits it gives +1 and those digits, with exactly 11 digits of which the first is
\* 1 it gives + and those digits; on an input that starts with + it gives a result
\* that starts with + and has the digits of the input, unchanged.
C25_PhoneCanonical ==
    (call.fn = "normPhone" /\ call.done) =>
        LET v == call.arg
            d == DigitsOf(v)
            plain == CharsOf(v) \subseteq DigitChars \cup Separators
        IN  /\ (plain /\ Len(d) = 10) => call.out = "+1" \o d
            /\ (plain /\ Len(d) = 11 /\ SubSeq(d, 1, 1) = "1") => call.out = "+" \o d
            /\ SubSeq(v, 1, 1) = "+" =>
                  (SubSeq(call.out, 1, 1) = "+" /\ DigitsOf(call.out) = d)

\* (514) 555-0100 has become +15145550100.
C25_Witness ==
    call.fn = "normPhone" /\ call.done /\ call.arg = RAW_PH /\ call.out = "+15145550100"

\* C26: safeEventTime, for a source timestamp t and the current time now, in epoch
\* seconds: the result is t when now - 7 days <= t <= now, and now when t is in the
\* future, older than 7 days or not a finite number; the result always lies in
\* [now - 7 days, now].
C26_TimestampClamped ==
    (call.fn = "safeEventTime" /\ call.done) =>
        LET nowS == call.arg.second.s
            src == call.arg.tsIn
            t == src.s
        IN  /\ call.out \in (nowS - 7 * Day)..nowS
            /\ src.kind = "invalid" => call.out = nowS
            /\ src.kind = "date" =>
                  IF nowS - 7 * Day <= t /\ t <= nowS THEN call.out = t
                  ELSE call.out = nowS

\* A timestamp of 30 days ago has been replaced by the current time.
C26_Witness ==
    /\ call.fn = "safeEventTime" /\ call.done
    /\ call.arg.tsIn.kind = "date"
    /\ call.arg.tsIn.s = call.arg.second.s - 30 * Day
    /\ call.out = call.arg.second.s

\* The eid parameter that a text holds.
EidIn(text) ==
    CASE text = REF_WITH_EID -> "ref111"
      [] text \in {NOTE_LINK, NOTE_QUERY} -> "note222"
      [] text = NOTE_AMP -> "note333"
      [] OTHER -> ""

FirstOf(a, b) == IF a # "" THEN a ELSE b

\* C27: getEidFromAppointment returns metadata.eid, else meta.eid; else the eid
\* parameter held by the referrer URL (of the online booking info, else of the
\* record) and, when the referrer holds none, the one held by the notes (else by the
\* client notes); it returns null only when none of them holds an eid.
C27_KeyExtraction ==
    (call.fn = "getEidFromAppointment" /\ call.done) =>
        LET a == call.arg
            fromReferrer == FirstOf(EidIn(a.obciRef), EidIn(a.referrerUrl))
            fromNotes == FirstOf(EidIn(a.notes), EidIn(a.clientNotes))
        IN  call.out = FirstOf(a.eid, FirstOf(a.meta_eid, FirstOf(fromReferrer, fromNotes)))

\* C28: with a secret configured, a booking request that presents the secret in
\* the x-webhook-secret header or in the key of the query string is not answered
\* 401, whatever the other of the two carries.
C28_EitherChannelAuthorises ==
    [][\A i \in Handlers :
        LET inp == reqs[i].input IN
        (/\ Handled(i) /\ inp.kind = "booking" /\ WEBHOOK_SECRET # ""
         /\ (inp.hdr = WEBHOOK_SECRET \/ inp.qry = WEBHOOK_SECRET))
        => reqs'[i].resp.status # 401]_vars

\* C29: on the booking and on the sale webhook, a credential presented in the
\* header or in the query string is compared with the secret by the constant-time
\* primitive (timingSafeEqual, or not at all when the lengths differ), so that
\* the time taken does not tell how many leading characters are right.
C29_ConstantTimeCompare ==
    [][\A i \in Handlers :
        LET inp == reqs[i].input IN
        (/\ Handled(i) /\ inp.kind \in {"booking", "sale"}
         /\ WEBHOOK_SECRET # "" /\ Presented(inp) # "")
        => reqs'[i].cmp \in {"timingSafeEqual", "length"}]_vars

\* C30: an intent call with event_id K that finds a record under K in IC_CACHE
\* replaces it: afterwards the record holds the fbp and fbc of this call, every
\* identity field this call lacks is empty, whatever the earlier record held, and
\* its stamp is the time of this call; the other keys keep their records.
C30_PutOverwritesAndRestamps ==
    [][\A i \in Handlers :
        LET inp == reqs[i].input
            K == inp.event_id
        IN  (/\ Handled(i) /\ WellFormedIntent(inp)
             /\ K # "" /\ K \in DOMAIN IC_CACHE)
            => /\ K \in DOMAIN IC_CACHE'
               /\ IC_CACHE'[K].fbp = inp.ud.fbp
               /\ IC_CACHE'[K].fbc = inp.ud.fbc
               /\ inp.ud.em = "" => IC_CACHE'[K].em = ""
               /\ inp.ud.ph = "" => IC_CACHE'[K].ph = ""
               /\ inp.ud.fn = "" => IC_CACHE'[K].fn = ""
               /\ inp.ud.ln = "" => IC_CACHE'[K].ln = ""
               /\ IC_CACHE'[K].ts = now
               /\ \A k \in DOMAIN IC_CACHE' \ {K} :
                     k \in DOMAIN IC_CACHE /\ IC_CACHE'[k] = IC_CACHE[k]]_vars

\* The first call, with fbp only, is still on its way to Meta when the second
\* call, with fbc only, has been handled at a later time: the record under the
\* key has the fbc of the second call, no fbp, and the time of the second call.
C30_Witness ==
    \E i, j \in Handlers :
        /\ i # j
        /\ reqs[i].kind = "intent" /\ reqs[i].pc \in {"fetch", "backoff"}
        /\ reqs[i].body.event_id = EID
        /\ reqs[i].body.ud.fbp = FBP /\ reqs[i].body.ud.fbc = ""
        /\ reqs[j].kind = "intent" /\ reqs[j].pc = "fetch" /\ reqs[j].calls = 1
        /\ reqs[j].body.event_id = EID
        /\ reqs[j].body.ud.fbp = "" /\ reqs[j].body.ud.fbc = FBC
        /\ EID \in DOMAIN IC_CACHE
        /\ IC_CACHE[EID].fbp = "" /\ IC_CACHE[EID].fbc = FBC
        /\ IC_CACHE[EID].ts = now /\ now > 1

\* An intent request for key K whose delivery is pending, backing off, or over
\* with either outcome.
IntentFor(q, K) ==
    /\ q.kind = "intent" /\ q.body.event_id = K
    /\ (InFlight(q) \/ (q.pc = "done" /\ q.sent \in {"returned", "raised"}))

\* C31: the intent handler writes the record of its event_id K in the step that
\* issues its first external call, no call of the request has been issued before;
\* while its delivery is pending or backing off, and once it is over with either
\* outcome, the store holds the record with the tokens of the event; the return
\* of a call and the end of a backoff leave the store as it is; and a booking
\* for K handled meanwhile is sent with the tokens of the record unless the
\* event was delivered already.
C31_StoredBeforeFirstCall ==
    /\ [](\A i \in Handlers :
            LET K == reqs[i].body.event_id
            IN  (K # "" /\ IntentFor(reqs[i], K)) =>
                  /\ K \in DOMAIN IC_CACHE
                  /\ IC_CACHE[K].fbp = reqs[i].body.ud.fbp
                  /\ IC_CACHE[K].fbc = reqs[i].body.ud.fbc)
    /\ [][\A i \in Handlers :
            LET inp == reqs[i].input
            IN  /\ (Handled(i) /\ WellFormedIntent(inp) /\ inp.event_id # "") =>
                      /\ reqs[i].calls = 0 /\ reqs'[i].calls = 1
                      /\ reqs'[i].pc = "fetch"
                      /\ inp.event_id \in DOMAIN IC_CACHE'
                /\ (reqs[i].kind = "intent" /\ InFlight(reqs[i])
                    /\ reqs'[i] # reqs[i]) => IC_CACHE' = IC_CACHE
                /\ (/\ Handled(i) /\ RefersTo(inp, inp.appt.eid)
                    /\ \E j \in Handlers : /\ InFlight(reqs[j])
                                           /\ IntentFor(reqs[j], inp.appt.eid)) =>
                      \/ Skipped(reqs'[i], "duplicate_event")
                      \/ /\ reqs'[i].pc = "fetch"
                         /\ reqs'[i].body.event_id = inp.appt.eid
                         /\ reqs'[i].body.ud.fbp = IC_CACHE[inp.appt.eid].fbp
                         /\ reqs'[i].body.ud.fbc = IC_CACHE[inp.appt.eid].fbc]_vars

\* The intent delivery is backing off after a retryable answer; the booking for
\* its key, handled meanwhile, is on its way with the fbp of the record.
C31_Witness ==
    \E i, j \in Handlers :
        /\ reqs[i].kind = "intent" /\ reqs[i].pc = "backoff"
        /\ reqs[i].body.event_id = EID /\ reqs[i].body.ud.fbp = FBP
        /\ reqs[j].kind = "booking" /\ reqs[j].pc = "fetch"
        /\ reqs[j].body.event_id = EID /\ reqs[j].body.ud.fbp = FBP
        /\ EID \in DOMAIN IC_CACHE /\ IC_CACHE[EID].fbp = FBP

\* C32: a booking that gets as far as the dedup check with event id E is skipped
\* as duplicate_event exactly when SENT_CACHE holds E with a stamp at most
\* SENT_TTL_MS (24 h) old, and then the store is left as it is; otherwise it is
\* sent, whether or not the attribution record is live, and an entry of E older
\* than 24 h is removed by the check.  The stamp of E is the time of the latest
\* delivery: a 2xx answer to the Purchase writes now.
C32_DedupExpiry ==
    [][\A i \in Handlers :
        LET inp == reqs[i].input
            E == ResolvedId(inp)
        IN  /\ (Handled(i) /\ Resolves(inp)) =>
                 IF E \in DOMAIN SENT_CACHE /\ now - SENT_CACHE[E] <= SENT_TTL_MS
                 THEN Skipped(reqs'[i], "duplicate_event") /\ SENT_CACHE' = SENT_CACHE
                 ELSE /\ reqs'[i].pc = "fetch" /\ reqs'[i].calls = 1
                      /\ reqs'[i].body.event_id = E
                      /\ SENT_CACHE' = MapDelete(SENT_CACHE, E)
            /\ (/\ reqs[i].kind = "booking" /\ reqs[i].pc = "fetch"
                /\ reqs'[i].sent = "returned") =>
                 SENT_CACHE' = MapSet(SENT_CACHE, reqs[i].body.event_id, now)]_vars

\* A Purchase for the key was delivered more than 24 h ago; the attribution
\* record of the key is still live; a booking for the key has passed the dedup
\* check, which removed the entry, and is on its way with the fbp of the record.
C32_Witness ==
    \E i \in Handlers :
        /\ reqs[i].kind = "booking" /\ reqs[i].pc = "fetch"
        /\ reqs[i].body.event_id = EID /\ reqs[i].body.ud.fbp = FBP
        /\ EID \in DOMAIN okAt /\ now - okAt[EID] > SENT_TTL_MS
        /\ LiveRecord(EID)
        /\ EID \notin DOMAIN SENT_CACHE

\* C33: the synchronous part of a booking request leaves IC_CACHE as it is, or,
\* when the key K read from the appointment has a record older than IC_TTL_MS,
\* removes that one record and nothing else; with a live record under K the
\* store is unchanged; and the later steps of a booking request (the return of
\* a call, the end of a backoff, the answer) leave the store unchanged.
C33_BookingOnlyReads ==
    [][\A i \in Handlers :
        LET inp == reqs[i].input
            K == getEidFromAppointment(inp.appt)
            stale == K # "" /\ K \in DOMAIN IC_CACHE /\ now - IC_CACHE[K].ts > IC_TTL_MS
        IN  /\ (Handled(i) /\ inp.kind = "booking") =>
                 /\ \A k \in DOMAIN IC_CACHE' :
                       k \in DOMAIN IC_CACHE /\ IC_CACHE'[k] = IC_CACHE[k]
                 /\ \A k \in DOMAIN IC_CACHE \ DOMAIN IC_CACHE' : k = K /\ stale
                 /\ (K # "" /\ LiveRecord(K)) => IC_CACHE' = IC_CACHE
            /\ (/\ reqs[i].kind = "booking" /\ reqs[i].pc \in {"fetch", "backoff", "done"}
                /\ reqs'[i] # reqs[i]) => IC_CACHE' = IC_CACHE]_vars

\* A booking for the key has read the live record, stored at an earlier time,
\* and is on its way with its fbp; the record is as the intent call left it.
C33_Witness ==
    \E i \in Handlers :
        /\ reqs[i].kind = "booking" /\ reqs[i].pc = "fetch"
        /\ reqs[i].body.event_id = EID /\ reqs[i].body.ud.fbp = FBP
        /\ LiveRecord(EID)
        /\ IC_CACHE[EID].fbp = FBP /\ IC_CACHE[EID].ts < now

\* C34: when a call returns a 5xx or 429 answer on attempt k, sendToMeta waits
\* 300 ms * k and then makes attempt k + 1 if k is 1 or 2, and raises at once,
\* without setting a timer, if k is 3; no timer is set at any other moment.
C34_BackoffBetweenAttempts ==
    [][\A i \in Handlers :
        LET q == reqs[i]
            n == reqs'[i]
        IN  /\ (/\ q.pc = "fetch" /\ n.pc # "fetch"
                /\ ServerOrRateLimit(n.lastStatus)) =>
                  IF q.attempt < MaxAttempts
                  THEN n.pc = "backoff" /\ n.delay = BASE_DELAY_MS * q.attempt
                  ELSE n.pc = "done" /\ n.sent = "raised" /\ n.delay = 0
            /\ (q.pc # "backoff" /\ n.pc = "backoff") =>
                  /\ q.pc = "fetch" /\ q.attempt < MaxAttempts
                  /\ ServerOrRateLimit(n.lastStatus)
            /\ (q.pc = "backoff" /\ n.pc # "backoff") =>
                  n.pc = "fetch" /\ n.attempt = q.attempt + 1]_vars

\* C35: on a non-empty input normPhone gives one + followed by one or more
\* digits: the first character is +, at least one character follows, and every
\* character after the first is a digit.
C35_PhoneShape ==
    (call.fn = "normPhone" /\ call.done /\ call.arg # "") =>
        /\ SubSeq(call.out, 1, 1) = "+"
        /\ Len(call.out) >= 2
        /\ CharsOf(SubSeq(call.out, 2, Len(call.out))) \subseteq DigitChars

\* C36: in the Purchase of a booking, each of em, ph, fn, ln that the client
\* record of the booking supplies is the digest of that value, whatever the
\* attribution record holds; fbp and fbc are those of the live attribution
\* record of the booking's key when it holds them, and those found in the
\* referrer only when the record (or no live record) supplies none.
C36_MergePrecedence ==
    [][\A i \in Handlers :
        LET inp == reqs[i].input
            a == inp.appt
            K == getEidFromAppointment(a)
            rec == IF K # "" /\ LiveRecord(K) THEN IC_CACHE[K] ELSE NoRec
            out == reqs'[i].body.ud
        IN  (Handled(i) /\ inp.kind = "booking" /\ reqs'[i].pc = "fetch") =>
              /\ a.cli.email # "" => out.em = sha256(a.cli.email)
              /\ a.cli.phone # "" => out.ph = sha256(normPhone(a.cli.phone))
              /\ a.cli.firstName # "" => out.fn = sha256(a.cli.firstName)
              /\ a.cli.lastName # "" => out.ln = sha256(a.cli.lastName)
              /\ out.fbp = (IF rec.fbp # "" THEN rec.fbp ELSE a.ref_fbp)
              /\ out.fbc = (IF rec.fbc # "" THEN rec.fbc ELSE a.ref_fbc)]_vars

\* The record of the key holds another email and an fbp but no fbc; the booking,
\* whose referrer holds both tokens, is on its way with the digest of its own
\* email, the fbp of the record and the fbc of the referrer.
C36_Witness ==
    \E i \in Handlers :
        /\ reqs[i].kind = "booking" /\ reqs[i].pc = "fetch"
        /\ reqs[i].body.event_id = EID
        /\ LiveRecord(EID)
        /\ IC_CACHE[EID].em = H_EM /\ IC_CACHE[EID].fbp = FBP /\ IC_CACHE[EID].fbc = ""
        /\ reqs[i].body.ud.em = H_OTHER_EM
        /\ reqs[i].body.ud.fbp = FBP
        /\ reqs[i].body.ud.fbc = REF_FBC

\* C37: an online booking of an appointment with an id is answered skipped =
\* duplicate_event only when the dedup store holds an event that was delivered
\* for that same appointment: a delivery made for another appointment.id never
\* makes it a duplicate.
C37_NoCrossDedup ==
    [][\A i \in Handlers :
        LET inp == reqs[i].input IN
        (/\ Handled(i) /\ inp.kind = "booking"
         /\ inp.appt.present /\ inp.appt.obci /\ inp.appt.id # ""
         /\ Skipped(reqs'[i], "duplicate_event"))
        => \E E \in DOMAIN SENT_CACHE : E \in DOMAIN okFor /\ okFor[E] = inp.appt.id]_vars

\* The digests that piimatchFromClient looks up for a client record.
ClientDigests(cli) ==
    [em |-> IF cli.email # "" THEN sha256(cli.email) ELSE "",
     ph |-> IF cli.phone # "" THEN sha256(normPhone(cli.phone)) ELSE ""]

\* C38: when the booking handler of part_005 adopts, for an appointment without
\* key, the key K that piimatchFromClient returns, the record stored under K is
\* live and holds the email digest or the phone digest of the client.
C38_IndexAgreesWithStore ==
    [][\A i \in Handlers :
        LET inp == reqs[i].input
            a == inp.appt
            K == reqs'[i].body.event_id
            d == ClientDigests(a.cli)
        IN  (/\ Handled(i) /\ inp.kind = "booking" /\ reqs'[i].pc = "fetch"
             /\ getEidFromAppointment(a) = ""
             /\ K # a.id)
            => /\ K \in DOMAIN IC_CACHE
               /\ now - IC_CACHE[K].ts <= PII_TTL_MS
               /\ \/ (d.em # "" /\ IC_CACHE[K].em = d.em)
                  \/ (d.ph # "" /\ IC_CACHE[K].ph = d.ph)]_vars

\* C39: from the first call of a sendToMeta invocation to its last, the payload
\* posted is the body the handler built before the first call: no step taken
\* while the delivery is pending or backing off, by this handler or by another,
\* changes the body or what the next call posts.
C39_SamePayloadOnRetry ==
    [][\A i \in Handlers :
        LET q == reqs[i]
            n == reqs'[i]
        IN  /\ (Handled(i) /\ n.pc = "fetch") => n.wire = n.body
            /\ (InFlight(q) /\ InFlight(n)) => n.body = q.body /\ n.wire = q.body]_vars

\* The booking was sent before the intent call stored the fbp of its key; its
\* second call is pending with the payload of the first, without fbp.
C39_Witness ==
    \E i, j \in Handlers :
        /\ reqs[i].kind = "booking" /\ reqs[i].pc = "fetch" /\ reqs[i].calls = 2
        /\ reqs[i].body.event_id = EID
        /\ reqs[i].wire = reqs[i].body /\ reqs[i].wire.ud.fbp = ""
        /\ reqs[j].kind = "intent" /\ reqs[j].body.event_id = EID
        /\ EID \in DOMAIN IC_CACHE /\ IC_CACHE[EID].fbp = FBP

\* C40: every intent, booking and sale request is answered, once, after at
\* most MaxAttempts external calls, when every external call settles.
Answered(i) == reqs[i].pc = "done" /\ reqs[i].resp # NoResp
C40_AnsweredOnce ==
    /\ [](\A i \in Handlers :
            /\ reqs[i].calls <= MaxAttempts
            /\ reqs[i].resp # NoResp <=> reqs[i].pc = "done")
    /\ [][\A i \in Handlers :
            reqs[i].resp # NoResp =>
                reqs'[i].resp = reqs[i].resp \/ reqs'[i] = NewReq]_vars
    /\ \A i \in Handlers :
            (reqs[i].pc \in {"received", "fetch", "backoff"}) ~> Answered(i)
C40_Witness ==
    \E i \in Handlers :
        /\ Answered(i)
        /\ reqs[i].kind = "booking"
        /\ reqs[i].calls = MaxAttempts
====
